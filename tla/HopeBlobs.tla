------------------------------ MODULE HopeBlobs ------------------------------
(***************************************************************************)
(* The images of a record in the blob storage shared with HOPE: before a    *)
(* transfer each image is saved under a key made of the program and the     *)
(* field, unless the hash kept in the record says that it is there already. *)
(***************************************************************************)
EXTENDS Naturals, FiniteSets

CONSTANTS
  Fields, Photo,        \* the image fields, and the one for DedupEngine
  Contents, None,       \* the images; no image
  MaxEdits, MaxFails, MaxMoves   \* bounds

BlobsAssumption ==
  Photo \in Fields /\ None \notin Contents /\ {MaxEdits, MaxFails, MaxMoves} \subseteq Nat

VARIABLES
  image,    \* flex_fields of the record
  hashes,   \* blob_hashes of the record
  place,    \* the program's part of the key: start year, office and code
  blobs,    \* the storage: by place and field
  sync,     \* the synchronisation that runs, with the record as it was read
  edits, fails

vars == <<image, hashes, place, blobs, sync, edits, fails>>

Maybe == Contents \cup {None}
Places == 0..MaxMoves
Idle == [at |-> "idle"]

Init ==
  /\ image \in [Fields -> Maybe]
  /\ hashes = [f \in Fields |-> None]
  /\ place = 0 /\ blobs = [k \in Places \X Fields |-> None]
  /\ sync = Idle /\ edits = 0 /\ fails = 0

(* sync_record_blobs: for a push all image fields, for DedupEngine one. *)
Start(only) ==
  /\ sync = Idle
  /\ sync' = [at |-> "saving", left |-> only, only |-> only, image |-> image, place |-> place,
              hashes |-> hashes]
  /\ UNCHANGED <<image, hashes, place, blobs, edits, fails>>

Key(f) == <<sync.place, f>>
Present(f) == f \in sync.only /\ sync.image[f] # None

(* One image after the other, in no fixed order; an unchanged one is skipped. *)
SaveImage(f) ==
  /\ sync.at = "saving" /\ f \in sync.left
  /\ blobs' = IF Present(f) /\ sync.hashes[f] # sync.image[f]
              THEN [blobs EXCEPT ![Key(f)] = sync.image[f]] ELSE blobs
  /\ sync' = [sync EXCEPT !.left = @ \ {f},
                          !.hashes[f] = IF Present(f) THEN sync.image[f] ELSE @]
  /\ UNCHANGED <<image, hashes, place, edits, fails>>

Stale == {f \in Fields : sync.hashes[f] # None /\ ~Present(f)}

(* Fields that had an image and have none now. *)
Obsolete == Stale \cap sync.only

DeleteImage(f) ==
  /\ sync.at = "saving" /\ sync.left = {} /\ f \in Obsolete
  /\ blobs' = [blobs EXCEPT ![Key(f)] = None]
  /\ sync' = [sync EXCEPT !.hashes[f] = None]
  /\ UNCHANGED <<image, hashes, place, edits, fails>>

(* The hashes are written together at the end, and the keys returned. *)
Finish ==
  /\ sync.at = "saving" /\ sync.left = {} /\ Obsolete = {}
  /\ hashes' = sync.hashes
  /\ sync' = [sync EXCEPT !.at = "returned"]
  /\ UNCHANGED <<image, place, blobs, edits, fails>>

(* The keys go to HOPE or DedupEngine. *)
Transfer ==
  /\ sync.at = "returned"
  /\ sync' = Idle
  /\ UNCHANGED <<image, hashes, place, blobs, edits, fails>>

(* The storage fails (BlobStorageError) or the worker dies: the hashes are *)
(* not written.                                                             *)
Fail ==
  /\ sync.at = "saving" /\ fails < MaxFails
  /\ fails' = fails + 1
  /\ sync' = Idle
  /\ UNCHANGED <<image, hashes, place, blobs, edits>>

(* The image is replaced, removed or put back. *)
Edit(f, c) ==
  /\ edits < MaxEdits /\ c # image[f]
  /\ image' = [image EXCEPT ![f] = c]
  /\ edits' = edits + 1
  /\ UNCHANGED <<hashes, place, blobs, sync, fails>>

(* The synchronisation with HOPE changes the program's start date or code. *)
MoveProgram ==
  /\ place < MaxMoves
  /\ place' = place + 1
  /\ UNCHANGED <<image, hashes, blobs, sync, edits, fails>>

Next ==
  \/ \E only \in {{Photo}, Fields} : Start(only)
  \/ \E f \in Fields : SaveImage(f) \/ DeleteImage(f)
  \/ Finish \/ Transfer \/ Fail \/ MoveProgram
  \/ \E f \in Fields, c \in Maybe : Edit(f, c)

Spec == Init /\ [][Next]_vars

-----------------------------------------------------------------------------
(* Properties *)

(* The type invariant; a hash is of an image that was saved under some key *)
(* unless a synchronisation failed.                                         *)
TypeOK ==
  /\ image \in [Fields -> Maybe] /\ hashes \in [Fields -> Maybe] /\ place \in Places
  /\ blobs \in [Places \X Fields -> Maybe]
  /\ edits \in 0..MaxEdits /\ fails \in 0..MaxFails
  /\ sync = Idle /\ fails = 0 =>
       \A f \in Fields : hashes[f] # None => \E p \in Places : blobs[<<p, f>>] = hashes[f]

Returned(f) == sync.at = "returned" /\ Present(f)

(* docs/src/config/storage.md: the key in a payload leads to the image of  *)
(* the record it was made from.                                             *)
KeysHoldImages == \A f \in Fields : Returned(f) => blobs[Key(f)] = sync.image[f]

(* ... which holds, whatever was edited during or between synchronisations *)
(* of some or all fields, while none has failed and the program stays.      *)
CalmKeysHoldImages == fails = 0 /\ place = 0 => KeysHoldImages
=============================================================================
