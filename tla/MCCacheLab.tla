---------------------------- MODULE MCCacheLab ----------------------------
\* The addresses of trace.f0; a stack above the addresses of csim.
EXTENDS CacheLab

MCMatrixSizes == {<<32, 32>>, <<64, 64>>, <<61, 67>>, <<5, 20>>, <<257, 4>>}
MCArguments == <<1626272, 1626244, 1626240>>
MCStack == 2^30 + 8
MCCsimArguments == { << <<"s", 0>>, <<"E", 1>>, <<"b", 1>>, <<"t", 1>> >>,
                     << <<"v", 0>>, <<"E", 1>>, <<"t", 1>>, <<"s", 1>> >>,
                     << <<"b", 1>>, <<"s", 2>>, <<"E", 2>>, <<"t", 1>>, <<"s", 1>> >>,
                     << <<"t", 1>>, <<"b", 1>>, <<"E", 1>>, <<"s", 2>> >> }
MCAccesses == ({"L"} \X {0, 1, 2, 4, 8, 2^30}) \union {<<"M", 0>>, <<"I", 2>>}
=============================================================================
