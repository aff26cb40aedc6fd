----------------------------- MODULE MCGateway -----------------------------
(* Instances of Gateway for TLC.                                           *)
EXTENDS Gateway

\* With and without Recovery and Auth; Permission without Auth is a mistake
\* that an application can make.
MCChains ==
  { <<"recovery", "auth", "permission", "proxy">>, <<"auth", "proxy">>,
    <<"recovery", "proxy">>, <<"auth", "permission", "proxy">>,
    <<"recovery", "permission", "proxy">> }

OneChain == { <<"recovery", "auth", "permission", "proxy">> }
=============================================================================
