------------------------- MODULE AuthorRegistration -------------------------
(***************************************************************************)
(* The mirrors that other authors declare: the one collection window of a  *)
(* session, in OnPostLoad of src/src/MirrorAuthorRegistrationRuntime.cpp,  *)
(* and the transaction that resolves what it froze, in OnDataLoaded.       *)
(* Declarations come in catalog files (the manifest), which a mod manager  *)
(* may exchange while they are read, and from the listeners of a message   *)
(* (the C ABI), which may keep the table they are given, hand it to other  *)
(* threads, and throw.  A declaration the collector refuses leaves nothing *)
(* behind and is left out here; two that conflict do not exist, because    *)
(* only one schema and no flag is accepted.                                *)
(***************************************************************************)
EXTENDS Naturals, FiniteSets, FiniteSetsExt, Functions

CONSTANTS Bases,    \* the declarable bases, in the order of plug-in and local id
          MaxBases, \* RR_MIRROR_AUTHOR_MAX_REGISTERED_BASES
          Leaves,   \* names of catalog files, in ordinal order
          Forms,    \* what the engine may resolve a declaration to
          NoForm,   \* it resolves to nothing acceptable
          OwnBases, \* kFrozenV1Bases: how many bases are the product's own
          Callers,  \* the threads that may call the API
          Origin    \* the thread of the SKSE messages

ASSUME AuthorConstants ==
  /\ Bases \subseteq Nat /\ IsFiniteSet(Bases) /\ MaxBases \in Nat
  /\ Leaves \subseteq Nat /\ IsFiniteSet(Leaves)
  /\ OwnBases \in Nat /\ NoForm \notin Forms /\ Origin \in Callers

Transports == {"cabi", "manifest"}

VARIABLES
  postLoad,   \* where OnPostLoad is
  markers,    \* the transport markers OnPostLoad has latched
  toResolve,  \* g_resolutionMarkerLatched
  unread,     \* files of the directory plan that are still to be read
  exchanged,  \* those of them that are not the listed files any more
  catalog,    \* CohortBuilder::mergedCatalog_, then what is yet to be staged of it
  facts,      \* ManifestCohortFacts::uniqueRegistrationCount
  window,     \* CollectionWindow::phase_
  entries,    \* Collector::entries_: each base with the transports that declared it
  overfull,   \* Collector::quarantined_
  tableOut,   \* a listener has the table
  receipt,    \* normallyFrozenReceipt_: the counts, or none
  offers,     \* every acceptable declaration that was made in time
  resolution, \* ResolutionTransaction::phase_
  resolved,   \* thirdPartyBaseTokens_, of the bases that were resolved
  ownSeen,    \* processedFrozenV1Count_
  ownForms    \* frozenV1BaseTokens_

loaderVars == <<unread, exchanged, catalog>>
collectorVars == <<window, entries, overfull, tableOut, receipt, offers>>
resolutionVars == <<resolution, resolved, ownSeen, ownForms>>
authorVars == <<postLoad, markers, toResolve, loaderVars, facts, collectorVars, resolutionVars>>

Nothing == [b \in {} |-> {}]
NoReceipt == [total |-> 0, cabi |-> 0, manifest |-> 0, valid |-> FALSE]

AuthorInit ==
  /\ postLoad = "ahead" /\ markers = {} /\ toResolve = FALSE
  /\ unread = {} /\ exchanged = {} /\ catalog = {} /\ facts = 0
  /\ window = "dormant" /\ entries = Nothing /\ overfull = FALSE
  /\ tableOut = FALSE /\ receipt = NoReceipt /\ offers = {}
  /\ resolution = "ahead" /\ resolved = Nothing /\ ownSeen = 0 /\ ownForms = {}

-----------------------------------------------------------------------------
(* OnPostLoad up to the window: the markers, and the catalog files.         *)

\* The end of OnPostLoad; scratch memory is scrubbed on every path.
Return ==
  /\ postLoad' = "returned"
  /\ unread' = {} /\ exchanged' = {} /\ catalog' = {}

\* The markers of the transports and of the resolution; a runtime that is not
\* supported counts as none here.  Without a messaging interface, or with a
\* directory that cannot be listed, nothing is begun.
PostLoad(transports, resolve, files, able) ==
  /\ postLoad = "ahead"
  /\ markers' = transports /\ toResolve' = resolve
  /\ IF transports = {} \/ ~able
     THEN Return
     ELSE /\ postLoad' = IF "manifest" \in transports THEN "loading" ELSE "loaded"
          /\ unread' = IF "manifest" \in transports THEN files ELSE {}
          /\ UNCHANGED <<exchanged, catalog>>
  /\ UNCHANGED <<facts, collectorVars, resolutionVars>>

\* A program exchanges a file after the directory was listed.
ExchangeFile(leaf) ==
  /\ postLoad = "loading" /\ leaf \in unread \ exchanged
  /\ exchanged' = exchanged \cup {leaf}
  /\ UNCHANGED <<postLoad, markers, toResolve, unread, catalog, facts, collectorVars,
                 resolutionVars>>

\* ReadOne and AddFile: the next file in ordinal order, with the bases it declares.
\* A file that is not the listed one, or one base too many, ends it all.
ReadCatalog(declared) ==
  /\ postLoad = "loading" /\ unread # {}
  /\ LET leaf == Min(unread)
         merged == catalog \cup declared IN
     /\ IF leaf \in exchanged \/ Cardinality(merged) > MaxBases
        THEN Return
        ELSE /\ unread' = unread \ {leaf}
             /\ catalog' = merged
             /\ UNCHANGED <<postLoad, exchanged>>
     /\ offers' = IF leaf \in exchanged THEN offers
                  ELSE offers \cup (declared \X {"manifest"})
  /\ UNCHANGED <<markers, toResolve, facts, window, entries, overfull, tableOut, receipt,
                 resolutionVars>>

\* A read, a parse or a digest fails.
LoadFails ==
  /\ postLoad = "loading"
  /\ Return
  /\ UNCHANGED <<markers, toResolve, facts, collectorVars, resolutionVars>>

LoadEnds ==
  /\ postLoad = "loading" /\ unread = {}
  /\ postLoad' = "loaded"
  /\ facts' = Cardinality(catalog)
  /\ UNCHANGED <<markers, toResolve, loaderVars, collectorVars, resolutionVars>>

-----------------------------------------------------------------------------
(* The window, which only the thread of OnPostLoad moves.                   *)

BeginStaging ==
  /\ postLoad = "loaded" /\ window = "dormant"
  /\ postLoad' = "collecting"
  /\ window' = "staging"
  /\ UNCHANGED <<markers, toResolve, loaderVars, facts, entries, overfull, tableOut, receipt,
                 offers, resolutionVars>>

\* Mutant: the base too many is refused, and the others stay.
RegisterWhatFits(b, transport) ==
  IF b \in DOMAIN entries
  THEN /\ entries' = [entries EXCEPT ![b] = @ \cup {transport}]
       /\ UNCHANGED overfull
  ELSE IF Cardinality(DOMAIN entries) >= MaxBases
  THEN UNCHANGED <<entries, overfull>>
  ELSE /\ entries' = [c \in DOMAIN entries \cup {b} |->
                        IF c = b THEN {transport} ELSE entries[c]]
       /\ UNCHANGED overfull

\* Collector::RegisterCommon, while nothing is quarantined: a base declared
\* again gets the other transport too, and one base too many condemns them all.
RegisterCommon(b, transport) ==
  IF b \in DOMAIN entries
  THEN /\ entries' = [entries EXCEPT ![b] = @ \cup {transport}]
       /\ UNCHANGED overfull
  ELSE IF Cardinality(DOMAIN entries) >= MaxBases
  THEN overfull' = TRUE /\ UNCHANGED entries
  ELSE /\ entries' = [c \in DOMAIN entries \cup {b} |->
                        IF c = b THEN {transport} ELSE entries[c]]
       /\ UNCHANGED overfull

\* One declaration of the catalog.  The parser and the merge have refused all
\* that the collector would refuse.
StageManifest ==
  /\ postLoad = "collecting" /\ window = "staging" /\ catalog # {}
  /\ RegisterCommon(Min(catalog), "manifest")
  /\ catalog' = catalog \ {Min(catalog)}
  /\ UNCHANGED <<postLoad, markers, toResolve, unread, exchanged, facts, window, tableOut,
                 receipt, offers, resolutionVars>>

\* The dispatch of the message to the listeners begins.
OpenCABI ==
  /\ postLoad = "collecting" /\ window = "staging" /\ catalog = {}
  /\ "cabi" \in markers
  /\ window' = "cabi"
  /\ UNCHANGED <<postLoad, markers, toResolve, loaderVars, facts, entries, overfull, tableOut,
                 receipt, offers, resolutionVars>>

\* RR_GetMirrorAuthoringAPI, called by thread t.
Query(t) ==
  /\ window = "cabi" /\ t = Origin /\ ~tableOut
  /\ tableOut' = TRUE
  /\ UNCHANGED <<postLoad, markers, toResolve, loaderVars, facts, window, entries, overfull,
                 receipt, offers, resolutionVars>>

\* PreflightRegistration, made before the declaration is copied and after.
MayRegister(t) == window = "cabi" /\ t = Origin

\* The table's registerBase: whoever holds the table may call it, at any time.
RegisterBase(t, b) ==
  /\ tableOut
  /\ IF MayRegister(t) /\ ~overfull
     THEN RegisterCommon(b, "cabi")
     ELSE UNCHANGED <<entries, overfull>>
  /\ offers' = IF MayRegister(t) THEN offers \cup {<<b, "cabi">>} ELSE offers
  /\ UNCHANGED <<postLoad, markers, toResolve, loaderVars, facts, window, tableOut, receipt,
                 resolutionVars>>

\* CloseAndAbort: every value is erased.
CloseAndAbort ==
  /\ window' = "aborted"
  /\ entries' = Nothing
  /\ overfull' = TRUE
  /\ UNCHANGED receipt

\* How many bases came through a transport: TransportProof.
Contributed(transport) == Cardinality({b \in DOMAIN entries : transport \in entries[b]})

ReceiptOf ==
  [total |-> Cardinality(DOMAIN entries), cabi |-> Contributed("cabi"),
   manifest |-> Contributed("manifest"), valid |-> TRUE]

\* TryBuildTransportProof and CleanReceiptHasExactFacts.
ProofHolds ==
  /\ ~overfull
  /\ \A b \in DOMAIN entries : entries[b] \subseteq markers
  /\ Contributed("manifest") = facts

\* FinalizeCollection, after the last transport returned with this result.
FinalizeCollection(succeeded) ==
  /\ postLoad = "collecting"
  /\ window = (IF "cabi" \in markers THEN "cabi" ELSE "staging")
  /\ catalog = {}
  /\ "cabi" \notin markers => succeeded
  /\ Return
  /\ IF succeeded /\ ProofHolds
     THEN /\ window' = "frozen" /\ receipt' = ReceiptOf
          /\ UNCHANGED <<entries, overfull>>
     ELSE CloseAndAbort
  /\ UNCHANGED <<markers, toResolve, facts, tableOut, offers, resolutionVars>>

\* A listener or a stage throws: the window is finalised on the way out.
CollectionUnwinds ==
  /\ postLoad = "collecting"
  /\ Return
  /\ CloseAndAbort
  /\ UNCHANGED <<markers, toResolve, facts, tableOut, offers, resolutionVars>>

-----------------------------------------------------------------------------
(* OnDataLoaded.                                                            *)

\* Reject and the end of the transaction: its identities are erased.
EndResolution(verdict) ==
  /\ resolution' = verdict
  /\ resolved' = Nothing /\ ownForms' = {} /\ UNCHANGED ownSeen

\* TryCopyExactFrozenSnapshot and Begin.
SnapshotIsExact == window = "frozen" /\ receipt = ReceiptOf /\ ProofHolds

DataLoaded_Authors ==
  /\ postLoad = "returned" /\ resolution = "ahead"
  /\ \/ (markers = {} \/ ~toResolve) /\ EndResolution("inert")
     \/ markers # {} /\ toResolve /\ ~SnapshotIsExact /\ EndResolution("rejected")
     \/ /\ markers # {} /\ toResolve /\ SnapshotIsExact
        /\ IF DOMAIN entries = {}
           THEN EndResolution("empty")
           ELSE resolution' = "entries" /\ UNCHANGED <<resolved, ownSeen, ownForms>>
  /\ UNCHANGED <<postLoad, markers, toResolve, loaderVars, facts, collectorVars>>

\* BeginEntry and CompleteEntry for the next declaration, which the engine
\* resolves to form: two declarations may not be one form.
ResolveEntry(form) ==
  /\ resolution = "entries" /\ DOMAIN resolved # DOMAIN entries
  /\ LET b == Min(DOMAIN entries \ DOMAIN resolved) IN
     IF form = NoForm \/ form \in Range(resolved)
     THEN EndResolution("rejected")
     ELSE /\ resolved' = [c \in DOMAIN resolved \cup {b} |->
                            IF c = b THEN form ELSE resolved[c]]
          /\ UNCHANGED <<resolution, ownSeen, ownForms>>
  /\ UNCHANGED <<postLoad, markers, toResolve, loaderVars, facts, collectorVars>>

CloseResolutionPass ==
  /\ resolution = "entries" /\ DOMAIN resolved = DOMAIN entries
  /\ resolution' = "own"
  /\ UNCHANGED <<resolved, ownSeen, ownForms, postLoad, markers, toResolve, loaderVars, facts,
                 collectorVars>>

\* AddFrozenV1Identity: the next of the product's own bases.  Its plug-in may be
\* inactive; else it has a form of its own.
AddOwnIdentity(active, form) ==
  /\ resolution = "own" /\ ownSeen < OwnBases
  /\ IF active /\ (form = NoForm \/ form \in Range(resolved) \/ form \in ownForms)
     THEN EndResolution("rejected")
     ELSE /\ ownSeen' = ownSeen + 1
          /\ ownForms' = IF active THEN ownForms \cup {form} ELSE ownForms
          /\ UNCHANGED <<resolution, resolved>>
  /\ UNCHANGED <<postLoad, markers, toResolve, loaderVars, facts, collectorVars>>

CloseAliasPass ==
  /\ resolution = "own" /\ ownSeen = OwnBases
  /\ EndResolution("accepted")
  /\ UNCHANGED <<postLoad, markers, toResolve, loaderVars, facts, collectorVars>>

\* A call into the engine faults: CleanupResolutionTransaction closes the pass.
ResolutionUnwinds ==
  /\ resolution \in {"entries", "own"}
  /\ EndResolution("rejected")
  /\ UNCHANGED <<postLoad, markers, toResolve, loaderVars, facts, collectorVars>>

AuthorNext ==
  \/ \E transports \in SUBSET Transports, resolve, able \in BOOLEAN, files \in SUBSET Leaves :
       PostLoad(transports, resolve, files, able)
  \/ \E leaf \in Leaves : ExchangeFile(leaf)
  \/ \E declared \in SUBSET Bases : ReadCatalog(declared)
  \/ LoadFails \/ LoadEnds
  \/ BeginStaging \/ StageManifest \/ OpenCABI
  \/ \E t \in Callers : Query(t)
  \/ \E t \in Callers, b \in Bases : RegisterBase(t, b)
  \/ \E succeeded \in BOOLEAN : FinalizeCollection(succeeded)
  \/ CollectionUnwinds
  \/ DataLoaded_Authors
  \/ \E form \in Forms \cup {NoForm} : ResolveEntry(form)
  \/ CloseResolutionPass
  \/ \E active \in BOOLEAN, form \in Forms \cup {NoForm} : AddOwnIdentity(active, form)
  \/ CloseAliasPass
  \/ ResolutionUnwinds

-----------------------------------------------------------------------------
\* What a window that froze lets read: each base with each of its transports.
Readable == UNION {{b} \X entries[b] : b \in DOMAIN entries}

\* The declarations of the other authors are taken whole or not at all.  What can
\* be read of a window that froze is every declaration made in time, by a listed
\* file or by a listener, under the transports it came through, in whatever order
\* they came and whoever still holds the table; a window that did not freeze has
\* nothing; and a resolution that is accepted found one form for each of the bases
\* declared, no two of them the same and none of them the product's own.
TakenWhole ==
  [][/\ window' = "frozen" => Readable' = offers'
     /\ postLoad' = "returned" /\ window' # "frozen" => entries' = Nothing
     /\ resolution' = "accepted" /\ resolution # "accepted" =>
          /\ DOMAIN resolved = {o[1] : o \in offers}
          /\ Cardinality(Range(resolved)) = Cardinality(DOMAIN resolved)
          /\ Range(resolved) \cap ownForms = {}]_authorVars
=============================================================================
