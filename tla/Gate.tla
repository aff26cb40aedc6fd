-------------------------------- MODULE Gate --------------------------------
(***************************************************************************)
(* auth.go and permission.go as operators: what the Auth middleware makes  *)
(* of a request's credentials and Permission of a token's scopes.          *)
(*                                                                         *)
(* A token is abstracted to what is wrong with it; signatures and keys are *)
(* the jwt package's and KeyFunc's.                                        *)
(***************************************************************************)
EXTENDS Integers

CONSTANTS
  Needed,         \* the permissions a route asks for
  EnableOptions,  \* AuthOption.EnableOptions: OPTIONS needs a token too
  Extractors      \* {"header"}, {"parameter"} or both: AuthOption.Extractor

ASSUME ExtractorsAssumption ==
  Extractors # {} /\ Extractors \subseteq {"header", "parameter"}

StatusUnauthorized == 401
StatusForbidden == 403

\*   none           no token at all    malformed  not "<schema> <token>"
\*   unverifiable   jwt.Parse fails: no kid, no key, signature, too old
\*   expiring       expired since jwt.Parse looked
\*   noIssuer, otherIssuer, otherAudience, valid: of a token that verified
Credentials == { "none", "malformed", "unverifiable", "expiring", "noIssuer",
                 "otherIssuer", "otherAudience", "valid" }

Scopes == SUBSET (Needed \cup {"other"})

\* What WWW-Authenticate says of a refusal.
Challenges == {"token_required", "invalid_request", "invalid_token", "insufficient_scope"}

\* What becomes of a request: it passes, with its token or without one, or it
\* is refused with a status and a challenge.  The challenge is set before the
\* status or, when "late", after it; only the early ones come with a body.
Passes(token)            == [pass |-> TRUE, token |-> token]
Refuses(challenge, late) == [pass |-> FALSE, challenge |-> challenge, late |-> late]

\* FromHeader tells no token from a malformed one; FromParameter takes any
\* text, the empty one included, for a token.
Extract(extractor, cred) ==
  CASE extractor = "header" /\ cred = "none" -> "token_required"
    [] extractor = "header" /\ cred = "malformed" -> "invalid_request"
    [] OTHER -> "token"

\* The handler of Auth.  A wrong issuer does not return: the checks go on, and
\* IsSkip ends them.  (!token.Valid is never reached: jwt.Parse fails first.)
Authenticate(extractor, method, cred) ==
  IF ~EnableOptions /\ method = "OPTIONS" THEN Passes(FALSE)
  ELSE IF Extract(extractor, cred) # "token" THEN Refuses(Extract(extractor, cred), FALSE)
  ELSE CASE cred \in {"none", "malformed", "unverifiable"} -> Refuses("invalid_request", FALSE)
         [] cred = "expiring" -> Refuses("invalid_token", FALSE)
         [] cred \in {"noIssuer", "otherIssuer", "otherAudience"} -> Refuses("invalid_token", TRUE)
         [] cred = "valid" -> Passes(TRUE)

\* newProvider: how the discovery of the issuer's keys may go.
Discoveries == {"unreachable", "status", "garbled", "otherIssuer", "ok"}

\* A slip: the loop fills another map.
emptyPermissionMap == [p \in {} |-> FALSE]

\* permissionMap: the permissions asked for, each granted or not.
newPermissionMap == [p \in Needed |-> FALSE]

Granted(map, scopes) == [p \in DOMAIN map |-> map[p] \/ p \in scopes]

IsDenied(map) == \E p \in DOMAIN map : ~map[p]
=============================================================================
