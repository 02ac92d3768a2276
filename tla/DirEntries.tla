----------------------------- MODULE DirEntries -----------------------------
(***************************************************************************)
(* The cache of directory listings behind ListDir                          *)
(* (tools-mcp-local/src/tools/scope_cache.rs, DirEntriesCache): a listing  *)
(* is served again while the directory has the modification time that was  *)
(* read after it was listed.  Unlike RepoScopeCache it keeps no floor and  *)
(* never lists again on its own account.                                   *)
(*                                                                         *)
(* All keys are views of one directory (hidden files or not).  The names    *)
(* differ from those of ScopeCache, the other cache of the same file, so    *)
(* that one module can hold the proofs about both.                          *)
(***************************************************************************)
EXTENDS Naturals, Sequences, FiniteSets, SequencesExt, AccessOrder, Directory

CONSTANTS
    Call,           \* the ListDir calls, each made once
    MaxListings     \* TOOLS_DIR_CACHE_MAX_ENTRIES

ASSUME DirEntriesAssumption == MaxListings \in Nat

\* A cached listing: the entries and directory_modified.  History: when it was
\* begun.
Listing == [list : SUBSET File, modified : Time, began : Time]
NoListing == [list |-> {}, modified |-> 0, began |-> 0]

ASSUME NoListingAssumption == None \notin Listing

VARIABLES
    listings, listingOrder, \* DirEntriesCacheInner: entries, access_order
    phase, view,            \* of a call: where it is, and its key
    listing,                \* the listing a call has been given, or makes
    unread                  \* what it has not looked at yet

listingCache == <<listings, listingOrder>>
dirVars == <<now, files, mtime, listings, listingOrder, phase, view, listing,
             unread>>

-----------------------------------------------------------------------------
DirChanges(f) ==
    /\ Toggle(f)
    /\ UNCHANGED <<listingCache, phase, view, listing, unread>>

DirAges ==
    /\ Age
    /\ UNCHANGED <<listingCache, phase, view, listing, unread>>

-----------------------------------------------------------------------------
\* The least number of the oldest listings that must go; all of them at most.
evictedListings(E, order) ==
    CHOOSE n \in 0 .. Len(order) :
        \A m \in 0 .. n :
            m = n <=> \/ Cardinality(Cached(Without(E, Range(SubSeq(order, 1, m)))))
                           <= MaxListings
                      \/ m = Len(order)

-----------------------------------------------------------------------------
Phase(c, s) == phase' = [phase EXCEPT ![c] = s]

StartListDir(c, k) ==
    /\ phase[c] = "new"
    /\ Phase(c, "lookup")
    /\ view' = [view EXCEPT ![c] = k]
    /\ UNCHANGED <<directory, listingCache, listing, unread>>

FindsListing(c) ==
    /\ phase[c] = "lookup" /\ listings[view[c]] # None
    /\ Phase(c, "check")
    /\ listing' = [listing EXCEPT ![c] = listings[view[c]]]
    /\ listingOrder' = touch(listingOrder, view[c])
    /\ UNCHANGED <<directory, listings, view, unread>>

FindsNone(c) ==
    /\ phase[c] = "lookup" /\ listings[view[c]] = None
    /\ Phase(c, "list")
    /\ UNCHANGED <<directory, listingCache, view, listing, unread>>

current(e) == e.modified = mtime

ServeCached(c) ==
    /\ phase[c] = "check" /\ current(listing[c])
    /\ Phase(c, "served")
    /\ UNCHANGED <<directory, listingCache, view, listing, unread>>

\* Another time, or none: the directory cannot be read.
ListAgain(c) ==
    /\ phase[c] = "check"
    /\ Phase(c, "list")
    /\ UNCHANGED <<directory, listingCache, view, listing, unread>>

\* build_dir_entries_snapshot: read_dir, then the entries in any order, then
\* the time.  A file that comes or goes meanwhile may be listed or not.
OpenDir(c) ==
    /\ phase[c] = "list"
    /\ Phase(c, "read")
    /\ listing' = [listing EXCEPT ![c] =
                     [list |-> {}, modified |-> 0, began |-> now]]
    /\ unread' = [unread EXCEPT ![c] = Shown[view[c]]]
    /\ UNCHANGED <<directory, listingCache, view>>

next_entry(c, f) ==
    /\ phase[c] = "read" /\ f \in unread[c]
    /\ listing' = [listing EXCEPT ![c].list = IF f \in files THEN @ \cup {f} ELSE @]
    /\ unread' = [unread EXCEPT ![c] = @ \ {f}]
    /\ UNCHANGED <<directory, listingCache, phase, view>>

\* Mutant: a listing broken off is taken for whole.
Mut_ReadModified(c) ==
    /\ phase[c] = "read"
    /\ Phase(c, "store")
    /\ listing' = [listing EXCEPT ![c].modified = mtime]
    /\ UNCHANGED <<directory, listingCache, view, unread>>
ReadModified(c) ==
    /\ phase[c] = "read" /\ unread[c] = {}
    /\ Phase(c, "store")
    /\ listing' = [listing EXCEPT ![c].modified = mtime]
    /\ UNCHANGED <<directory, listingCache, view, unread>>

store_listing(c) ==
    LET E == [listings EXCEPT ![view[c]] = listing[c]]
        order == touch(listingOrder, view[c])
        n == evictedListings(E, order)
    IN  /\ phase[c] = "store"
        /\ Phase(c, "listed")
        /\ listings' = Without(E, Range(SubSeq(order, 1, n)))
        /\ listingOrder' = SubSeq(order, n + 1, Len(order))
        /\ UNCHANGED <<directory, view, listing, unread>>

ListFails(c) ==
    /\ phase[c] \in {"list", "read"}
    /\ Phase(c, "failed")
    /\ UNCHANGED <<directory, listingCache, view, listing, unread>>

-----------------------------------------------------------------------------
DirInit ==
    /\ now = 0 /\ files \in SUBSET File /\ mtime = 0
    /\ listings = [k \in Key |-> None] /\ listingOrder = <<>>
    /\ phase = [c \in Call |-> "new"] /\ view = [c \in Call |-> CHOOSE k \in Key : TRUE]
    /\ listing = [c \in Call |-> NoListing] /\ unread = [c \in Call |-> {}]

ListDir(c) ==
    \/ \E k \in Key : StartListDir(c, k)
    \/ FindsListing(c) \/ FindsNone(c) \/ ServeCached(c) \/ ListAgain(c)
    \/ OpenDir(c) \/ (\E f \in File : next_entry(c, f)) \/ ReadModified(c)
    \/ store_listing(c) \/ ListFails(c)

DirNext ==
    \/ \E c \in Call : ListDir(c)
    \/ \E f \in File : DirChanges(f)
    \/ DirAges

DirSpec == DirInit /\ [][DirNext]_dirVars

-----------------------------------------------------------------------------
(* Properties *)

DirTypes ==
    /\ now \in Time /\ files \subseteq File /\ mtime \in Time
    /\ listings \in [Key -> {None} \cup Listing]
    /\ phase \in [Call -> {"new", "lookup", "check", "list", "read", "store",
                           "served", "listed", "failed"}]
    /\ view \in [Call -> Key] /\ listing \in [Call -> Listing]
    /\ unread \in [Call -> SUBSET File]

\* The variables have their types, and the order names each cached key once.
DirTypeOK ==
    /\ DirTypes
    /\ Range(listingOrder) = Cached(listings)
    /\ Len(listingOrder) = Cardinality(Cached(listings))

\* The time read after the listing is older than the listing: nothing changed
\* in between.
Unraced(e) == e.modified < e.began

\* Only a change during the listing, or in the same unit of time, can make a
\* cached listing wrong for good: an unraced one with the time of the directory
\* is what the directory holds, even if it was stored over a newer one.
UnracedIsExact ==
    \A k \in Key :
        listings[k] # None /\ Unraced(listings[k]) /\ listings[k].modified = mtime
          => listings[k].list = files \cap Shown[k]
=============================================================================
