-------------------------------- MODULE MCSoftTimer --------------------------------
(* Instances of SoftTimer: the callbacks of the demo, but for those that   *)
(* differ from others in their interval only. ota_end reads back piece by  *)
(* piece and in the end starts the restart; bleData_send asks for another  *)
(* interval as long as there are packets. DemoCallback has those that the  *)
(* demo itself starts: nothing in it sends with bleData_send.              *)
EXTENDS SoftTimer
MCCallback == {"ota_end", "reboot", "uart_timeout", "bleData_send"}
DemoCallback == {"ota_end", "reboot", "uart_timeout", "monitor"}
MCInterval == [c \in Callback |->
    CASE c \in {"ota_end", "bleData_send"} -> 2
      [] c = "uart_timeout" -> 3
      [] c \in {"reboot", "monitor"} -> 4]
Again(result) == [result |-> result, starts |-> NoTimer]
MCOutcome == [c \in Callback |->
    CASE c = "ota_end" -> {Again(0), [result |-> -1, starts |-> "reboot"]}
      [] c = "bleData_send" -> {Again(3), Again(-1)}
      [] OTHER -> {Again(-1)}]
MCResets == {"reboot"}
===============================================================================
