----------------------------- MODULE MCServing -----------------------------
\* Values of Serving's constants for TLC.
EXTENDS Serving

\* The chains of Default() in full, of New() bare, and what lies between.
MCChains ==
  { << >>, <<"user">>, <<"user", "user">>, <<"user", "user", "user">>,
    <<"recovery", "user">>, <<"logger", "recovery", "user">>,
    <<"recovery", "user", "user">> }

\* For runs with several requests.
FewChains == { <<"user", "user">>, <<"recovery", "user">> }

\* Statuses: the wrapper's default, one with a body, one without, a redirect,
\* and the error that serveError looks for.
MCCodes == {200, 201, 204, 302, 404}

AllOps == UserOps
ResponseOps == {"SetStatus", "Render", "Panic", "AbortWithStatusAndMessage"}
PoolOps == {"Error", "Set", "Skip", "Panic", "Next", "SetStatus"}
=============================================================================
