---------------------------- MODULE SessionCreate ----------------------------
(***************************************************************************)
(* Creating a session from the image catalog: the administrators' catalog  *)
(* service (packages/control-plane/src/catalog-service.ts), whose entries  *)
(* change by version-conditioned writes of the whole record, and the       *)
(* request handler of POST /api/workspaces, which reads the catalog twice  *)
(* through a lagging index, checks the quota and the repository, and only  *)
(* then reserves the session.                                              *)
(***************************************************************************)
EXTENDS Naturals, FiniteSets

CONSTANTS Entry,        \* catalog entries by id
          CatalogAdmin, \* administrators' requests and rollouts in flight
          Creation,     \* session-create requests in flight
          MaxTag,       \* tags 1..MaxTag; tag 0 is a reference without a tag
          MaxEntryVersion

ASSUME CatalogAssumption == MaxTag \in Nat /\ MaxEntryVersion \in Nat

Repo == {"golden"}
ImageRef == Repo \X (0..MaxTag)
Editor == {"openvscode", "monaco"}
DefaultEditor == "openvscode"
Absent == [version |-> 0]
EntryRow == [image : ImageRef, enabled : BOOLEAN, editor : Editor, version : Nat]

VARIABLES
  catalog,    \* the table: Entry -> row or Absent
  listing,    \* the byCatalog index, which follows the table
  decided,    \* the last acknowledged decision about each entry (history)
  change,     \* an administrator's change between its read and its write
  creation    \* a create request's progress

catalogVars == <<catalog, listing, decided, change, creation>>

NoChange == [at |-> "none"]
NoCreation == [at |-> "none"]

CatalogInit ==
  /\ catalog = [e \in Entry |-> Absent]
  /\ listing = catalog
  /\ decided = [e \in Entry |-> "unused"]
  /\ change = [a \in CatalogAdmin |-> NoChange]
  /\ creation = [q \in Creation |-> NoCreation]

Rows(view) == {e \in Entry : view[e] # Absent}

\* The administrators' decisions, as acknowledged to them, allow an image.
Allowed(cat, dec, image) ==
  \E e \in Rows(cat) : cat[e].image = image /\ dec[e] = "enabled"

\* Every create request in flight remembers whether its image was allowed at
\* some moment of the request (history).
Watched(cat, dec) ==
  [q \in Creation |->
     IF creation[q].at \in {"none", "reserved"} THEN creation[q]
     ELSE [creation[q] EXCEPT !.allowed = @ \/ Allowed(cat, dec, creation[q].image)]]

-----------------------------------------------------------------------------
\* The catalog service.

\* The request's fields, each with a default when it is left out.
ProvisionBaseImage == [image : ImageRef, enabled : BOOLEAN, editor : Editor, version : {1}]

\* create: an id no entry ever had, so no condition can fail.
CreateEntry(e) ==
  /\ decided[e] = "unused"
  /\ \E row \in ProvisionBaseImage :
       /\ catalog' = [catalog EXCEPT ![e] = row]
       /\ decided' = [decided EXCEPT ![e] = IF row.enabled THEN "enabled" ELSE "disabled"]
  /\ creation' = Watched(catalog', decided')
  /\ UNCHANGED <<listing, change>>

\* applyBaseImagePatch: what the patch leaves out keeps the value that was read.
ApplyPatch(row, patch) ==
  [f \in DOMAIN row |-> IF f \in DOMAIN patch THEN patch[f] ELSE row[f]]

Loaded(a, e, next, version, decision) ==
  change' = [change EXCEPT ![a] = [at |-> "loaded", entry |-> e, next |-> next,
                                   version |-> version, decision |-> decision]]

\* update: reads the entry from the table and applies the administrator's patch.
LoadForUpdate(a, e) ==
  /\ change[a].at = "none" /\ catalog[e] # Absent
  /\ \/ \E b \in BOOLEAN :
          Loaded(a, e, ApplyPatch(catalog[e], [enabled |-> b]), catalog[e].version,
                 IF b THEN "enabled" ELSE "disabled")
     \/ \E editor \in Editor, image \in ImageRef :
          \E patch \in {[editor |-> editor], [image |-> image]} :
             Loaded(a, e, ApplyPatch(catalog[e], patch), catalog[e].version, "same")
  /\ UNCHANGED <<catalog, listing, decided, creation>>

\* remove: reads the entry for its version.
LoadForRemove(a, e) ==
  /\ change[a].at = "none" /\ catalog[e] # Absent
  /\ Loaded(a, e, Absent, catalog[e].version, "removed")
  /\ UNCHANGED <<catalog, listing, decided, creation>>

\* rollImageTag: the one entry of the repository, found in the index.  A listed
\* reference without a tag makes the match throw; no match, or several, is a conflict.
LoadForRoll(a, repo, tag) ==
  /\ change[a].at = "none"
  /\ \A e \in Rows(listing) : listing[e].image[2] # 0
  /\ LET matches == {e \in Rows(listing) : listing[e].image[1] = repo}
     IN /\ Cardinality(matches) = 1
        /\ \E e \in matches :
             Loaded(a, e, ApplyPatch(listing[e], [image |-> <<repo, tag>>]),
                    listing[e].version, "same")
  /\ UNCHANGED <<catalog, listing, decided, creation>>

\* The version condition of persistUpdate and of remove's delete.
WriteLands(c) == catalog[c.entry] # Absent /\ catalog[c.entry].version = c.version

\* persistUpdate or delete: the whole record, or a conflict for the caller.
PersistChange(a) ==
  LET c == change[a]
  IN /\ c.at = "loaded"
     /\ change' = [change EXCEPT ![a] = NoChange]
     /\ \/ /\ WriteLands(c)
           /\ c.next # Absent => c.version < MaxEntryVersion
           /\ catalog' = [catalog EXCEPT ![c.entry] =
                IF c.next = Absent THEN Absent ELSE [c.next EXCEPT !.version = c.version + 1]]
           /\ decided' = IF c.decision = "same" THEN decided
                         ELSE [decided EXCEPT ![c.entry] = c.decision]
           /\ creation' = Watched(catalog', decided')
        \/ ~WriteLands(c) /\ UNCHANGED <<catalog, decided, creation>>
     /\ UNCHANGED listing

\* The index reaches the table's row.
ListingCatchesUp(e) ==
  /\ listing[e] # catalog[e]
  /\ listing' = [listing EXCEPT ![e] = catalog[e]]
  /\ UNCHANGED <<catalog, decided, change, creation>>

-----------------------------------------------------------------------------
\* POST /api/workspaces.

Go(q, rec) ==
  /\ creation' = [creation EXCEPT ![q] = rec]
  /\ UNCHANGED <<catalog, listing, decided, change>>

\* A request that starts while the index lags may be answered from the past.
BeginCreation(q, image) ==
  /\ creation[q].at = "none"
  /\ Go(q, [at |-> "catalog", image |-> image, editor |-> DefaultEditor,
            allowed |-> Allowed(catalog, decided, image) \/ listing # catalog])

\* Mutant: any entry of the image will do, enabled or not.
FindListedImage(image) == {e \in Rows(listing) : listing[e].image = image}
\* findEnabledImage over the catalog as listed.
FindEnabledImage(image) ==
  {e \in Rows(listing) : listing[e].enabled /\ listing[e].image = image}

AssertEnabled(q) ==
  /\ creation[q].at = "catalog"
  /\ Go(q, IF FindEnabledImage(creation[q].image) = {} THEN NoCreation
           ELSE [creation[q] EXCEPT !.at = "editor"])

\* The caller's choice, else the entry's editor by a second read, which falls
\* back to the default when the entry has gone in between.
EditorForImage(q) ==
  /\ creation[q].at = "editor"
  /\ LET found == FindEnabledImage(creation[q].image)
         With(editor) == Go(q, [creation[q] EXCEPT !.at = "checks", !.editor = editor])
     IN \/ \E editor \in Editor : With(editor)
        \/ \E e \in found : With(listing[e].editor)
        \/ found = {} /\ With(DefaultEditor)

\* The quota read, the repository probe and the owner's address each may refuse.
CheckRequest(q) ==
  /\ creation[q].at = "checks"
  /\ \/ Go(q, NoCreation)
     \/ Go(q, [creation[q] EXCEPT !.at = "reserve"])

\* reserveWorkspace, whose quota condition may cancel it; the launch is detached.
ReserveSession(q) ==
  /\ creation[q].at = "reserve"
  /\ \/ Go(q, NoCreation)
     \/ Go(q, [creation[q] EXCEPT !.at = "reserved"])

FinishCreation(q) == creation[q].at = "reserved" /\ Go(q, NoCreation)

CatalogNext ==
  \/ \E e \in Entry : CreateEntry(e) \/ ListingCatchesUp(e)
  \/ \E a \in CatalogAdmin :
       \/ \E e \in Entry : LoadForUpdate(a, e) \/ LoadForRemove(a, e)
       \/ \E repo \in Repo, tag \in 1..MaxTag : LoadForRoll(a, repo, tag)
       \/ PersistChange(a)
  \/ \E q \in Creation :
       \/ \E image \in ImageRef : BeginCreation(q, image)
       \/ AssertEnabled(q) \/ EditorForImage(q) \/ CheckRequest(q)
       \/ ReserveSession(q) \/ FinishCreation(q)

CatalogSpec == CatalogInit /\ [][CatalogNext]_catalogVars

-----------------------------------------------------------------------------
\* No session starts from an image the administrators had withdrawn before its
\* request came in and did not admit again while it ran: neither the allow-list
\* check nor a rollout or edit computed from an older read lets it back in
\* (workspaces/route.ts "Workspaces may only launch from an enabled catalog
\* entry"; catalog-service.ts "cannot silently clobber each other").
WithdrawnStaysOut ==
  \A q \in Creation : creation[q].at = "reserved" => creation[q].allowed
=============================================================================
