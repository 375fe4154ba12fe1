--------------------------- MODULE MCFileTransfer ---------------------------
(* An instance of FileTransfer for TLC.                                    *)
EXTENDS FileTransferInvariants, TLC

Transfer(type, file, peer) == [type |-> type, file |-> file, server |-> peer]

MCBlocks == [f \in Files |-> 2]
MCFiles == 1 :> {"g"} @@ 2 :> {"f"}
MCWanted == 1 :> <<Transfer("download", "f", 2), Transfer("push", "g", 2)>> @@ 2 :> <<>>
MCKills == 1 :> 1 @@ 2 :> 0
=============================================================================
