----------------------------- MODULE MCUsbRpc -----------------------------
(* Instances of UsbRpc for TLC: one function of each shape, messages of a    *)
(* few bytes, buffers that some messages do not fit.                         *)
EXTENDS UsbRpcInv

MCLookup == "GetRpcCallId"
Everything == {"GetRpcCallId", "GetRpcVersion", "SetLed", "Daq_Read", "GetInfo", "NewCall"}
Data == {"GetRpcCallId", "GetRpcVersion", "Daq_Read"}
Values == {"GetRpcCallId", "GetRpcVersion", "GetBoardId"}
Mixed == {"GetRpcCallId", "GetRpcVersion", "SetLed", "Daq_Read"}

MCFixed == {"GetRpcCallId", "GetRpcVersion"}
MCMissing == {"NewCall"} \cap Fn

MCShape == [f \in Fn |->
    CASE f = "SetLed" -> "void"
      [] f = "Daq_Read" -> "vector"
      [] f = "GetInfo" -> "string"
      [] OTHER -> "value"]
MCReqBytes == [f \in Fn |-> IF f \in {"GetRpcCallId", "SetLed"} THEN 2 ELSE 1]
MCParBytes == [f \in Fn |-> CASE f = "GetRpcCallId" -> 2
                              [] Shape[f] \in {"value"} -> 1
                              [] OTHER -> 0]
MCDatBytes == [f \in Fn |-> CASE Shape[f] = "vector" -> 2 [] Shape[f] = "string" -> 1 [] OTHER -> 0]

NoFaults == {}
LateOrWrite == {"late", "write"}
Short == {"read", "short"}
=============================================================================
