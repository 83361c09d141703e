----------------------------- MODULE AuditTrail -----------------------------
(***************************************************************************)
(* The privileged-action audit trail: rows appended in the transaction of  *)
(* the change they describe, and removed only by the retention purge.  The *)
(* trail is the issuer's (services/audit.py) and, line for line, that of   *)
(* the example service (examples/fastapi_full/app/audit.py), whose         *)
(* categories are the changes modelled here (app/routes/category.py).      *)
(*                                                                         *)
(* A change is a request that loads the item, and then writes the item and *)
(* the row in one transaction.  A batch of the purge is claimed and, in a  *)
(* later step, deleted and committed.                                      *)
(*                                                                         *)
(* Not part of the state: pages of the listing, the trigger that refuses   *)
(* any other DELETE and the stall it once caused, the check of a new       *)
(* owner with the issuer.                                                  *)
(***************************************************************************)
EXTENDS Integers, FiniteSets, FiniteSetsExt

CONSTANTS
    Items,      \* categories, by their unique name; a name is used once
    Actors,     \* users; any of them may own an item
    Superusers, \* the canonical superusers among them
    Writers,    \* requests that change items
    Purges,     \* purge requests
    Windows,    \* retention windows
    Floor,      \* AUDIT_PURGE_MIN_RETENTION_SECONDS
    AuditBatch, \* AUDIT_PURGE_BATCH_SIZE
    ClockMax,   \* bound on the clock
    RowMax,     \* bound on the rows appended
    CutMax      \* bound on the purges cut off

ASSUME ActorsAssumption == Superusers \subseteq Actors
ASSUME WindowsAssumption ==
    /\ Windows \subseteq Nat /\ Floor \in Nat /\ \E w \in Windows : w >= Floor
    /\ AuditBatch \in Nat \ {0}
ASSUME PurgesAssumption == IsFiniteSet(Purges)
ASSUME TrailBoundsAssumption == {ClockMax, RowMax, CutMax} \subseteq Nat

VARIABLES
    item,      \* the table of items
    trail,     \* the audit table
    writer,    \* the change requests
    purge,     \* the purge requests
    clock,
    changes,   \* history: the cross-owner changes committed
    appended,  \* number of rows ever appended
    erased,    \* history: number of rows purged
    reported,  \* history: rows counted by the purges that have recorded it
    cut        \* history: rows counted by the purges cut off, with their number

trailVars == <<item, trail, writer, purge, clock, changes, appended, erased, reported, cut>>

NoItem == [owner |-> "none", live |-> FALSE]
NoWrite == [action |-> "none", actor |-> "none", item |-> "none", owner |-> "none"]
NoPurge == [pc |-> "idle", horizon |-> 0, claimed |-> {}, removed |-> 0]

(* What a row of the trail, and a change, is about. *)
Entry(w, owner) == [action |-> w.action, actor |-> w.actor, item |-> w.item, owner |-> owner]
PurgeEntry == [action |-> "purge", actor |-> "none", item |-> "none", owner |-> "none"]
Row(entry) == [n |-> appended + 1, at |-> clock, entry |-> entry]

(* The rows a purge has claimed are its own, and still there. *)
TrailTypeOK ==
    /\ \A i \in Items : item[i].owner \in Actors \cup {"none"} /\ item[i].live \in BOOLEAN
    /\ \A t \in trail : t.n \in 1 .. appended /\ t.at \in 0 .. clock
    /\ \A w \in Writers : writer[w].action \in {"none", "add", "edit", "delete"}
    /\ \A p \in Purges :
        /\ purge[p].pc \in {"idle", "claim", "delete", "record"}
        /\ purge[p].claimed \subseteq trail
        /\ \A q \in Purges \ {p} : purge[p].claimed \cap purge[q].claimed = {}
    /\ clock \in 0 .. ClockMax
    /\ appended \in Nat /\ erased \in Nat /\ reported \in Nat
    /\ cut.purges \in 0 .. CutMax /\ cut.rows \in Nat

TrailInit ==
    /\ item = [i \in Items |-> NoItem]
    /\ trail = {} /\ changes = {}
    /\ writer = [w \in Writers |-> NoWrite]
    /\ purge = [p \in Purges |-> NoPurge]
    /\ clock = 0 /\ appended = 0 /\ erased = 0 /\ reported = 0
    /\ cut = [purges |-> 0, rows |-> 0]

-----------------------------------------------------------------------------
(* is_owned_by, is_canonical_superuser. *)
MayChange(actor, owner) == owner = actor \/ actor \in Superusers

(* resolve_create_owner_id, and the rows loaded by edit and delete, with   *)
(* the owner read off them.                                                *)
LoadItem(w, action, actor, i, owner) ==
    /\ writer[w] = NoWrite /\ MayChange(actor, owner)
    /\ IF action = "add" THEN item[i] = NoItem
       ELSE item[i].live /\ item[i].owner = owner
    /\ writer' = [writer EXCEPT ![w] =
                    [action |-> action, actor |-> actor, item |-> i, owner |-> owner]]
    /\ UNCHANGED <<item, trail, purge, clock, changes, appended, erased, reported, cut>>

(* The transaction goes through: the name of a new item is free, and the   *)
(* UPDATE of an edit has found its row.  The DELETE of a row that is gone  *)
(* is no error.                                                            *)
Applies(w) ==
    CASE writer[w].action = "add"    -> item[writer[w].item] = NoItem
      [] writer[w].action = "edit"   -> item[writer[w].item].live
      [] writer[w].action = "delete" -> TRUE

(* The transaction changes what is not the actor's own. *)
CrossOwner(w) ==
    /\ writer[w].owner # writer[w].actor
    /\ writer[w].action = "delete" => item[writer[w].item].live

(* Recording what is already there, not what is created. *)
RecordedUnlessAdded(w) ==
    writer[w].owner # writer[w].actor /\ writer[w].action # "add"

(* record_cross_owner_category_action records what is not the actor's own. *)
Recorded(w) == writer[w].owner # writer[w].actor

(* The change and its row, committed together or not at all. *)
CommitChange(w) ==
    LET q == writer[w]
        entry == Entry(q, q.owner)
    IN  /\ q # NoWrite /\ appended < RowMax
        /\ writer' = [writer EXCEPT ![w] = NoWrite]
        /\ IF Applies(w)
             THEN /\ item' = [item EXCEPT ![q.item] =
                                [owner |-> q.owner, live |-> q.action # "delete"]]
                  /\ trail' = IF Recorded(w) THEN trail \cup {Row(entry)} ELSE trail
                  /\ appended' = IF Recorded(w) THEN appended + 1 ELSE appended
                  /\ changes' = IF CrossOwner(w)
                                  THEN changes \cup {[at |-> clock, entry |-> entry]}
                                  ELSE changes
             ELSE UNCHANGED <<item, trail, changes, appended>>
        /\ UNCHANGED <<purge, clock, erased, reported, cut>>

Tick ==
    /\ clock < ClockMax
    /\ clock' = clock + 1
    /\ UNCHANGED <<item, trail, writer, purge, changes, appended, erased, reported, cut>>

-----------------------------------------------------------------------------
(* _enforce_retention_floor. *)
FloorAllows(window) == window >= Floor

(* purge_expired_audit_rows: the horizon is fixed at the start. *)
StartPurge(p, window) ==
    /\ purge[p].pc = "idle" /\ FloorAllows(window) /\ appended < RowMax
    /\ purge' = [purge EXCEPT ![p] =
                    [NoPurge EXCEPT !.pc = "claim", !.horizon = clock - window]]
    /\ UNCHANGED <<item, trail, writer, clock, changes, appended, erased, reported, cut>>

Older(p) == {t \in trail : t.at < purge[p].horizon}

(* Batches claimed without a lock. *)
ClaimableUnlocked(p) == Older(p)

(* FOR UPDATE SKIP LOCKED. *)
Claimable(p) == Older(p) \ UNION {purge[q].claimed : q \in Purges}

(* A batch of the rows, oldest first. *)
BatchesOf(rows) ==
    LET size == IF Cardinality(rows) < AuditBatch THEN Cardinality(rows) ELSE AuditBatch
    IN  {b \in kSubset(size, rows) : \A t \in b, u \in rows \ b : t.at <= u.at}

(* _claim_purge_batch: an empty batch ends the sweep. *)
ClaimBatch(p) ==
    /\ purge[p].pc = "claim"
    /\ \E b \in BatchesOf(Claimable(p)) :
        purge' = [purge EXCEPT ![p].claimed = b,
                               ![p].pc = IF b = {} THEN "record" ELSE "delete"]
    /\ UNCHANGED <<item, trail, writer, clock, changes, appended, erased, reported, cut>>

(* _delete_claimed_batch, its commit, and the end of a short sweep. *)
DeleteBatch(p) ==
    LET b == purge[p].claimed IN
    /\ purge[p].pc = "delete"
    /\ trail' = trail \ b
    /\ erased' = erased + Cardinality(b \cap trail)
    /\ purge' = [purge EXCEPT ![p].claimed = {}, ![p].removed = @ + Cardinality(b),
                              ![p].pc = IF Cardinality(b) < AuditBatch
                                          THEN "record" ELSE "claim"]
    /\ UNCHANGED <<item, writer, clock, changes, appended, reported, cut>>

(* The purge's own row, with the number of rows removed. *)
RecordPurge(p) ==
    /\ purge[p].pc = "record"
    /\ trail' = trail \cup {Row(PurgeEntry)}
    /\ appended' = appended + 1
    /\ reported' = reported + purge[p].removed
    /\ purge' = [purge EXCEPT ![p] = NoPurge]
    /\ UNCHANGED <<item, writer, clock, changes, erased, cut>>

(* The process dies, or a statement fails: the batch's transaction is      *)
(* rolled back, and nothing says how many rows went before.                *)
CutOffPurge(p) ==
    /\ purge[p].pc # "idle" /\ cut.purges < CutMax
    /\ cut' = [purges |-> cut.purges + 1, rows |-> cut.rows + purge[p].removed]
    /\ purge' = [purge EXCEPT ![p] = NoPurge]
    /\ UNCHANGED <<item, trail, writer, clock, changes, appended, erased, reported>>

-----------------------------------------------------------------------------
TrailNext ==
    \/ \E w \in Writers :
        \/ \E i \in Items, actor, owner \in Actors, action \in {"add", "edit", "delete"} :
            LoadItem(w, action, actor, i, owner)
        \/ CommitChange(w)
    \/ Tick
    \/ \E p \in Purges :
        \/ \E window \in Windows : StartPurge(p, window)
        \/ ClaimBatch(p)
        \/ DeleteBatch(p)
        \/ RecordPurge(p)
        \/ CutOffPurge(p)

-----------------------------------------------------------------------------
(* "The category and its record commit or roll back together": whatever    *)
(* other requests did to the item between its load and the commit, and     *)
(* whatever has been purged since, every cross-owner change younger than   *)
(* the retention floor has its row, and every row of an add or an edit     *)
(* tells of a change that was committed.                                   *)
TrailAgrees ==
    /\ \A c \in changes :
        \/ \E t \in trail : t.at = c.at /\ t.entry = c.entry
        \/ clock - c.at > Floor
    /\ \A t \in trail : t.entry.action \in {"add", "edit"} =>
        \E c \in changes : c.at = t.at /\ c.entry = t.entry

(* The rows that running purges have removed, each with its purge.         *)
Unreported == UNION {{p} \X (1 .. purge[p].removed) : p \in Purges}

(* The trail accounts for its own losses: however many purges run at once, *)
(* the rows that are gone are as many as the purges recorded, plus what    *)
(* the running and the cut-off ones have removed; SKIP LOCKED is what      *)
(* keeps a row from being counted twice.                                   *)
PurgeAccounted == erased = reported + cut.rows + Cardinality(Unreported)
=============================================================================
