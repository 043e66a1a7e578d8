-------------------------- MODULE MCModbusExchange --------------------------
(***************************************************************************)
(* ModbusExchange for TLC: a device with three holding registers from 1,   *)
(* two input registers from 1, and the CRC of the code.                    *)
(***************************************************************************)
EXTENDS ModbusExchange, ModbusCRC, TLC

HoldingRegs == 1 :> 6 @@ 2 :> 65535 @@ 3 :> 258
InputRegs == 1 :> 771 @@ 2 :> 4

Read(fc, addr, count) == [fc |-> fc, addr |-> addr, count |-> count, words |-> <<>>]
Write(fc, addr, words) == [fc |-> fc, addr |-> addr, count |-> Len(words), words |-> words]
Malformed == Read(0, 0, 0)

\* One register, two, one of the other kind, one that does not exist.
CatOps ==
  {<<Read(3, 1, 1)>>, <<Read(3, 1, 2), Read(4, 1, 1)>>, <<Read(4, 1, 2), Read(3, 2, 2)>>,
   <<Read(3, 3, 1), Read(3, 3, 2)>>, <<Read(3, 2, 1), Malformed>>, <<Read(3, 1, 126)>>}

\* One or two registers, the same one again, one that does not exist.
SetOps ==
  {<<Write(6, 1, <<515>>), Write(16, 2, <<1, 512>>), Write(6, 1, <<6>>)>>,
   <<Write(16, 1, <<0, 7>>), Malformed, Write(6, 3, <<1>>)>>,
   <<Write(6, 3, <<9>>), Write(16, 3, <<1, 2>>)>>}

AllJobs ==
  [cmd : {"cat"}, net : {"rtu", "tcp"}, patient : BOOLEAN, ops : CatOps] \cup
  [cmd : {"set"}, net : {"rtu", "tcp"}, patient : BOOLEAN, ops : SetOps]

TCPJobs == [cmd : {"cat"}, net : {"tcp"}, patient : {TRUE}, ops : {<<Read(3, 1, 1)>>}]

ASSUME MCDetects == CRCDetects
=============================================================================
