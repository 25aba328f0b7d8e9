---------------------------- MODULE MCSerialize ----------------------------
(***************************************************************************)
(* Instances of Serialize for TLC.                                         *)
(***************************************************************************)
EXTENDS Serialize

MCLeaves == {"Date", "DateTime", "UInt64", "Int64", "UInt8", "Float64", "Decimal", "IPv4",
             "String", "Enum8", "Dynamic", "JSON"}
=============================================================================
