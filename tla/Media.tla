-------------------------------- MODULE Media --------------------------------
(***************************************************************************)
(* The files of messages.  The API and the workers have a disk each: the   *)
(* API keeps what agents upload, in the database too, and fetches what     *)
(* customers send before a worker stores the message; a worker fetches     *)
(* what the API did not get, and writes a file to its own disk when it has *)
(* to send it.  Types, sizes and the conversion of voice notes are left    *)
(* out.                                                                    *)
(***************************************************************************)
EXTENDS Requests

VARIABLES
    assets,         \* media_assets: the message that each belongs to, or 0
    kept,           \* those with file_data: their bytes are in the database
    disk            \* the files on the disks

mediaState == <<assets, kept, disk>>

File(host, a) == [host |-> host, asset |-> a]
InitMedia(uploaded) == /\ assets = uploaded /\ kept = DOMAIN uploaded
                       /\ disk = {File("api", a) : a \in DOMAIN uploaded}

\* Fault: the bytes stay on the disk alone.
UploadToDisk(q) ==
    /\ AtOnce(q)
    /\ assets' = Added(assets, q.asset, 0) /\ disk' = disk \union {File("api", q.asset)} /\ UNCHANGED kept
upload(q) ==
    /\ AtOnce(q)
    /\ assets' = Added(assets, q.asset, 0)
    /\ kept' = kept \union {q.asset} /\ disk' = disk \union {File("api", q.asset)}

\* The webhook fetches the file of an inbound message, if it can.
Fetches(q) == IF q.asset = 0 THEN {FALSE} ELSE BOOLEAN
prefetch_inbound_media(q, fetched) ==
    /\ disk' = IF fetched THEN disk \union {File("api", q.asset)} ELSE disk
    /\ UNCHANGED <<assets, kept>>

StoreAsset(q, m) == assets' = Added(assets, q.asset, m) /\ UNCHANGED kept

\* Fault: the row is written before the file is fetched.
StoreFirst(q, m, fetched) ==
    IF q.asset = 0 THEN UNCHANGED mediaState
    ELSE /\ StoreAsset(q, m)
         /\ disk' \in IF fetched THEN {disk} ELSE {disk, disk \union {File("worker", q.asset)}}

\* A worker that cannot fetch the file either stores the message without it.
_download_and_store_media(q, m, fetched) ==
    \/ q.asset # 0 /\ fetched /\ StoreAsset(q, m) /\ UNCHANGED disk
    \/ q.asset # 0 /\ ~fetched /\ StoreAsset(q, m) /\ disk' = disk \union {File("worker", q.asset)}
    \/ (q.asset = 0 \/ ~fetched) /\ UNCHANGED mediaState

Attached(m) == {a \in DOMAIN assets : assets[a] = m}

\* What is not on a worker's disk is written there from the database.
_ensure_media_file_on_disk(as) == \A a \in as : File("worker", a) \in disk \/ a \in kept
WrittenToDisk(as) == disk' = disk \union {File("worker", a) : a \in as}

\* The API serves what is on its own disk.
serve_media(a) == File("api", a) \in disk
=============================================================================
