---------------------------- MODULE MCCollectAll ----------------------------
(* The calls of collectAll() in which the event is counted down too often or *)
(* not often enough.                                                         *)
EXTENDS CollectAll

With(entry, max, exec) == [entry |-> entry, maxConcurrency |-> max, exec |-> exec]

InOneThread == {With("collectAll", 0, {})}
Hanging == {With("collectAllPara", 0, Inputs), With("variadic collectAll", 0, {}),
            With("variadic collectAllPara", 0, Inputs)}
=============================================================================
