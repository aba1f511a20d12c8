--------------------------------- MODULE MCMemory ---------------------------------
(* An instance of Memory: the heap, the packet queue and the limits of the *)
(* build, the longest data and short data, with fewer events.              *)
EXTENDS Memory
Data(dps) == [dps |-> dps, cut |-> 0]
Long == Data(<<255>>)
Short == Data(<<1, 0, 1>>)
MCInputs == [connections |-> 1, messages |-> 2, reports |-> 1]
MCReport == {[ev |-> "DP_DATA_WITH_FLAG", data |-> Data(<<1, 1>>)],
             [ev |-> "DP_DATA_WITH_FLAG_AND_TIME_STRING", data |-> Data(<<238>>)],
             [ev |-> "PRODUCTION_TEST_RESPONSE", data |-> Long]}
MCMessage == {[cmd |-> "PAIR", data |-> Data(<<47>>)],
              [cmd |-> "DP_WRITE", data |-> Long],
              [cmd |-> "DP_WRITE", data |-> [dps |-> <<1, 4>>, cut |-> 1]],
              [cmd |-> "DATA_PASSTHROUGH", data |-> Data(<<255, 219>>)],
              [cmd |-> "OTA_DATA", data |-> Short],
              [cmd |-> "NET_CONFIG_INFO", data |-> Short],
              [cmd |-> "UNBONDING", data |-> NoData]}
===============================================================================
