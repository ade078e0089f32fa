------------------------------- MODULE MCHub -------------------------------
(* Hub for TLC: what callers ask for.  A settings update may replace the     *)
(* Workshop folders, which is a clear and then one change for each folder.   *)
EXTENDS Hub

CONSTANTS i1, i2, u1, d1

Change(f, v) == [field |-> f, value |-> v]
MCFound == {i1}
MCRequests ==
    {<<Change("install", {i2})>>,
     <<Change("user", {u1}), Change("install", {})>>,
     <<Change("workshop", {}), Change("workshop", {d1})>>}
=============================================================================
