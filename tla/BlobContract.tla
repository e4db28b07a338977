----------------------------- MODULE BlobContract -----------------------------
(***************************************************************************)
(* What a blob store promises (blob/store.go, Store): content is kept under  *)
(* its hash with the media type it was first stored with, until it is        *)
(* deleted; storing it again changes nothing.                                *)
(***************************************************************************)
CONSTANTS Hashes, Mimes, NoMime

\* The media type each stored hash has, NoMime when Get answers ErrNotFound.
VARIABLE blobs

Init == blobs = [h \in Hashes |-> NoMime]

Put(h, m) ==
    /\ blobs[h] = NoMime
    /\ blobs' = [blobs EXCEPT ![h] = m]

Delete(gone) == blobs' = [h \in Hashes |-> IF h \in gone THEN NoMime ELSE blobs[h]]

Next ==
    \/ \E h \in Hashes, m \in Mimes : Put(h, m)
    \/ \E gone \in SUBSET Hashes : Delete(gone)

Spec == Init /\ [][Next]_blobs
=============================================================================
