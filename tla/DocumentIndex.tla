--------------------------- MODULE DocumentIndex ---------------------------
(***************************************************************************)
(* What the index promises the callers of the API, with one store and no   *)
(* processes: which content of a document a search may find, after which   *)
(* requests.                                                               *)
(*                                                                         *)
(* A request is accepted at once and shows in searches later.  Until then  *)
(* the document answers with what it held before, or with nothing.  It     *)
(* never answers with content that is not the one wanted when it appeared, *)
(* and after a delete it answers nothing, however it was indexed, until it *)
(* has been sent again and the new content published.                      *)
(***************************************************************************)
CONSTANTS
    Docs,
    Texts,       \* contents
    References,  \* sources whose content is read when the document is indexed
    None

VARIABLES
    wanted,      \* wanted[d]: the source last accepted, None when d is deleted
    answer       \* answer[d]: the contents a search finds

Init ==
    /\ wanted = [d \in Docs |-> None]
    /\ answer = [d \in Docs |-> {}]

\* A document is sent, for the first time or again.
Accept(d, s) ==
    /\ wanted' = [wanted EXCEPT ![d] = s]
    /\ UNCHANGED answer

\* The wanted content becomes the answer.
Publish(d, t) ==
    /\ wanted[d] \in References \cup {t}
    /\ answer' = [answer EXCEPT ![d] = {t}]
    /\ UNCHANGED wanted

\* The document stops answering: it is about to be replaced or deleted, or a
\* replacement failed half way.
Withdraw(d) ==
    /\ answer' = [answer EXCEPT ![d] = {}]
    /\ UNCHANGED wanted

Delete(d) ==
    /\ wanted' = [wanted EXCEPT ![d] = None]
    /\ answer' = [answer EXCEPT ![d] = {}]

Next ==
    \E d \in Docs :
        \/ \E s \in Texts \cup References : Accept(d, s)
        \/ \E t \in Texts : Publish(d, t)
        \/ Withdraw(d)
        \/ Delete(d)

Spec == Init /\ [][Next]_<<wanted, answer>>

=============================================================================
