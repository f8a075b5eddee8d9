--------------------------- MODULE PolicyVersions ---------------------------
(***************************************************************************)
(* What the platform promises about a lender's policy: a draft starts from *)
(* the published version, is edited, and is published whole, which         *)
(* archives its predecessor.  From then on its content is frozen, and what *)
(* an evaluation recorded about a version stays true of it.                *)
(***************************************************************************)
CONSTANTS Lenders, Versions, Contents, Empty, NoLender

VARIABLES status, owner, content, results

vars == <<status, owner, content, results>>

Init ==
    /\ status = [v \in Versions |-> "none"]
    /\ owner = [v \in Versions |-> NoLender]
    /\ content = [v \in Versions |-> Empty]
    /\ results = {}

Of(l, st) == {v \in Versions : owner[v] = l /\ status[v] = st}

\* The content a new draft of l starts with.
Basis(l) == IF Of(l, "published") = {} THEN {Empty}
            ELSE {content[v] : v \in Of(l, "published")}

Draft(l, v) ==
    /\ status[v] = "none"
    /\ Of(l, "draft") = {}
    /\ status' = [status EXCEPT ![v] = "draft"]
    /\ owner' = [owner EXCEPT ![v] = l]
    /\ \E c \in Basis(l) : content' = [content EXCEPT ![v] = c]
    /\ UNCHANGED results

Edit(v) ==
    /\ status[v] = "draft"
    /\ \E c \in Contents : content' = [content EXCEPT ![v] = c]
    /\ UNCHANGED <<status, owner, results>>

Publish(v) ==
    /\ status[v] = "draft"
    /\ content[v] # Empty
    /\ status' = [w \in Versions |->
                    CASE w = v -> "published"
                      [] w \in Of(owner[v], "published") -> "archived"
                      [] OTHER -> status[w]]
    /\ UNCHANGED <<owner, content, results>>

\* Versions that no result refers to disappear: a discarded draft, or all
\* the versions of a deleted lender.
Remove(V) ==
    /\ \A r \in results : r.version \notin V
    /\ status' = [v \in Versions |-> IF v \in V THEN "gone" ELSE status[v]]
    /\ UNCHANGED <<owner, content, results>>

Record(v) ==
    /\ status[v] \in {"published", "archived"}
    /\ results' = results \cup {[version |-> v, content |-> content[v]]}
    /\ UNCHANGED <<status, owner, content>>

Next ==
    \/ \E l \in Lenders, v \in Versions : Draft(l, v)
    \/ \E v \in Versions : Edit(v) \/ Publish(v) \/ Record(v)
    \/ \E v \in Versions : status[v] = "draft" /\ Remove({v})
    \/ \E l \in Lenders :
           Remove({v \in Versions : owner[v] = l /\ status[v] # "gone"})

Spec == Init /\ [][Next]_vars
=============================================================================
