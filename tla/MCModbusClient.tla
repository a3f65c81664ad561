--------------------------- MODULE MCModbusClient ---------------------------
(* ModbusClient with two request kinds and few transaction identifiers.     *)
EXTENDS ModbusClient

CONSTANTS ReadState, WriteTable

MCOps == {ReadState, WriteTable}
AnyRecovery == SUBSET {"LINK", "PROTOCOL"}
=============================================================================
