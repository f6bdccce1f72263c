--------------------------- MODULE MCServiceToken ---------------------------
(***************************************************************************)
(* Small instance of ServiceToken.  One unit of time is ten seconds, the   *)
(* settings are the defaults of the code.                                  *)
(***************************************************************************)
EXTENDS ServiceToken

CONSTANTS q1, q2

Claims(aud, scope, scp) ==
  [subject |-> TRUE, aud |-> aud, scope |-> scope, scp |-> scp]
Entitled == Claims({"gateway"}, {}, {"credit"})

\* The service's token as required, and without the required scope.
TwoServiceClaims == {Entitled, Claims({"gateway"}, {}, {})}

Bearer(exp, c) == [scheme |-> "bearer", signed |-> TRUE, exp |-> exp, claims |-> c]
\* A good header, one that ends early, one for others, one that is no JWT,
\* and one of another scheme.
FiveHeaders ==
  {Bearer(100, Entitled), Bearer(0, Entitled),
   Bearer(100, Claims(Malformed, {}, {})),
   [Bearer(100, Entitled) EXCEPT !.signed = FALSE],
   [Bearer(100, Entitled) EXCEPT !.scheme = "basic"]}
=============================================================================
