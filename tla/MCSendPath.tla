----------------------------- MODULE MCSendPath -----------------------------
(* Small instances of SendPath for TLC.                                    *)
EXTENDS SendPath

CONSTANT MaxId   \* bound: local ids -MaxId..-1, server ids 1..MaxId

MCLocalIds == -MaxId .. -1
MCServerIds == 1 .. MaxId
MCDateOf == [s \in MCServerIds |-> s]
=============================================================================
