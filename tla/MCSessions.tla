----------------------------- MODULE MCSessions -----------------------------
(* Instances of Sessions for TLC.                                          *)
EXTENDS Sessions

LOCAL INSTANCE TLC

CONSTANTS s, t, c1, c2, r1, r2

\* A logout, a Save repeated, and a new session saved after the head is sent.
Relogin(n) ==
  <<Call("Clear", n, 0), Call("Options", n, -1), SaveOf(n), SaveOf(n),
    Call("Options", n, Default), Call("Set", n, KeyArg("text")), RespondOf(n), SaveOf(n)>>

\* The tests' handlers, and: a logout with a login, a Save after the response,
\* a number, a key that is no string.
MCHandlers ==
  GetSet(s) \cup DeleteKey(s) \cup Flashes(s) \cup Clear(s) \cup Options(s)
  \cup Many(s, t)
  \cup { Relogin(s),
         <<Call("Set", s, KeyArg("text")), RespondOf(s), SaveOf(s)>>,
         <<Call("Set", s, KeyArg("int")), SaveOf(s)>>,
         <<Call("Set", s, <<"odd", "text">>), SaveOf(s)>> }

\* NewStore without an age, and Store.Options without one.
MCStoreAges == {NewStore(0), 0}

Alike == Permutations({c1, c2}) \cup Permutations({r1, r2})
=============================================================================
