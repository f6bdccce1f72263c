--------------------------- MODULE WriteOnceStore ---------------------------
(***************************************************************************)
(* What the services expect of the artifact store: a name is given bytes   *)
(* once and keeps them, and a writer that is told the URI may rely on it.  *)
(* ModelLifecycle takes its store to be of this kind.                      *)
(***************************************************************************)
CONSTANTS Names, Payloads, None

VARIABLES
  content,   \* the bytes of each name
  promised   \* names and bytes that a writer was told are stored

vars == <<content, promised>>

Init ==
  /\ content = [n \in Names |-> None]
  /\ promised = {}

Put(n, p) ==
  /\ content[n] = None
  /\ content' = [content EXCEPT ![n] = p]
  /\ UNCHANGED promised

Promise(n, p) ==
  /\ content[n] = p
  /\ promised' = promised \union {<<n, p>>}
  /\ UNCHANGED content

PutAndPromise(n, p) ==
  /\ content[n] = None
  /\ content' = [content EXCEPT ![n] = p]
  /\ promised' = promised \union {<<n, p>>}

Next ==
  \E n \in Names, p \in Payloads :
    Put(n, p) \/ Promise(n, p) \/ PutAndPromise(n, p)

Spec == Init /\ [][Next]_vars
=============================================================================
