--------------------------- MODULE NewestRegister --------------------------
(***************************************************************************)
(* What the trackers of consensus/hotstuff/tracker promise to callers that *)
(* run concurrently: Track takes effect at once, and the register holds    *)
(* the item with the highest view of all that have been tracked, the first *)
(* one if there are several.                                               *)
(***************************************************************************)
EXTENDS Integers

CONSTANTS Items, View(_), NoItem

VARIABLES newest,     \* the newest item, or NoItem
          tracked     \* the items whose Track has returned

Track(x) ==
    /\ tracked' = tracked \cup {x}
    /\ newest' = IF newest = NoItem THEN x
                 ELSE IF View(newest) < View(x) THEN x ELSE newest

RegisterSpec ==
    /\ newest = NoItem /\ tracked = {}
    /\ [][\E x \in Items : Track(x)]_<<newest, tracked>>
=============================================================================
