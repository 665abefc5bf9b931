------------------------------- MODULE Upload -------------------------------
(***************************************************************************)
(* The chunked upload of Samples/LargeFileUploadSample: the page's script  *)
(* wwwroot/js/upload.js and HomeController.Upload on the server.           *)
(*                                                                         *)
(* An upload is one call of uploadFileInChunks: a click, on this page or   *)
(* on another one.  The script is single threaded, so everything between   *)
(* two awaits or callbacks is one step.  The server runs a request per     *)
(* chunk; they interleave at the await of CopyToAsync, which is taken byte *)
(* by byte.  A stored byte is a pair of the upload it came from and its    *)
(* position in that upload's file.                                         *)
(*                                                                         *)
(* The page can learn three things of a request: it was answered (with     *)
(* whatever status), or fetch failed, or neither yet.                      *)
(***************************************************************************)
EXTENDS Naturals

CONSTANTS
    Uploads,        \* calls of uploadFileInChunks
    Sizes,          \* the sizes a file may have, in bytes
    ChunkSize       \* CHUNK_SIZE

ASSUME UploadAssumption ==
    /\ Sizes \subseteq Nat
    /\ ChunkSize \in Nat \ {0}

VARIABLES
    size,           \* file.size of each upload
    fetch,          \* fetch[u][i]: the page's request for the chunk with index i
    uploadCnt,      \* uploadCnt of each call
    announced,      \* how often each call said that the upload is complete
    server,         \* server[u][i]: that request on the server
    temp            \* temp[i]: the bytes of the file i of TempFolder

vars == <<size, fetch, uploadCnt, announced, server, temp>>

-----------------------------------------------------------------------------
\* Mutant of TotalChunks: rounded down.
TotalChunksFloor(n) == n \div ChunkSize

\* Mutant of TotalChunks: a chunk too many for a file of whole chunks.
TotalChunksPlusOne(n) == n \div ChunkSize + 1

\* Math.ceil(file.size / CHUNK_SIZE)
TotalChunks(n) == (n + ChunkSize - 1) \div ChunkSize

\* The values of start in the loop, and Math.floor(start / CHUNK_SIZE).
Starts(n) == {start \in 0 .. n : start < n /\ start % ChunkSize = 0}

Index(start) == start \div ChunkSize

Indexes(n) == {Index(start) : start \in Starts(n)}

\* Mutant of End: the last byte of a chunk is left out.
EndShort(n, start) == IF start + ChunkSize < n THEN start + ChunkSize - 1 ELSE n

\* Mutant of End: not cut off at the end of the file.
EndPast(n, start) == start + ChunkSize

\* Math.min(start + CHUNK_SIZE, file.size)
End(n, start) == IF start + ChunkSize < n THEN start + ChunkSize ELSE n

\* file.slice(start, end) for the chunk with index i
Chunk(u, i) ==
    {<<u, b>> : b \in {c \in 0 .. size[u] :
        \E start \in Starts(size[u]) :
            Index(start) = i /\ start <= c /\ c < End(size[u], start)}}

\* Every index some upload may use.
Slots == UNION {Indexes(n) : n \in Sizes}

\* The bytes of all files.
Bytes == UNION {{<<u, b>> : b \in {c \in 0 .. size[u] : c < size[u]}} : u \in Uploads}

-----------------------------------------------------------------------------
\* Types of the page's and of the server's side of the uploads; what is stored
\* was a byte of a file.
TypeOK ==
    /\ size \in [Uploads -> Sizes]
    /\ fetch \in [Uploads -> [Slots -> {"none", "reading", "pending", "answered", "rejected"}]]
    /\ uploadCnt \in [Uploads -> Nat]
    /\ announced \in [Uploads -> Nat]
    /\ server \in [Uploads -> [Slots -> {"none", "sent", "gone", "writing", "refused", "saved", "failed"}]]
    /\ temp \in [Slots -> SUBSET Bytes]

Init ==
    /\ size \in [Uploads -> Sizes]
    /\ fetch = [u \in Uploads |-> [i \in Slots |-> "none"]]
    /\ uploadCnt = [u \in Uploads |-> 0]
    /\ announced = [u \in Uploads |-> 0]
    /\ server = [u \in Uploads |-> [i \in Slots |-> "none"]]
    /\ temp = [i \in Slots |-> {}]

-----------------------------------------------------------------------------
(***************************************************************************)
(* The page.                                                               *)
(***************************************************************************)

\* The click handler and the loop of uploadFileInChunks: a FileReader per
\* chunk starts.  Nothing at all happens for an empty file.
Click(u) ==
    /\ size[u] > 0
    /\ fetch[u] = [i \in Slots |-> "none"]
    /\ fetch' = [fetch EXCEPT ![u] =
                    [i \in Slots |-> IF i \in Indexes(size[u]) THEN "reading" ELSE "none"]]
    /\ UNCHANGED <<size, uploadCnt, announced, server, temp>>

\* chunkReader.onloadend, up to the await: the readers end in any order.
OnLoadEnd(u, i) ==
    /\ fetch[u][i] = "reading"
    /\ fetch' = [fetch EXCEPT ![u][i] = "pending"]
    /\ server' = [server EXCEPT ![u][i] = "sent"]
    /\ UNCHANGED <<size, uploadCnt, announced, temp>>

\* progress == 1 in updateProgress
Complete(u, cnt) == cnt = TotalChunks(size[u])

\* A response, of whatever status, resolves the promise: onloadend goes on
\* behind its await and calls updateProgress.
Answer(u, i) ==
    /\ fetch[u][i] = "pending"
    /\ server[u][i] \in {"refused", "saved", "failed"}
    /\ fetch' = [fetch EXCEPT ![u][i] = "answered"]
    /\ uploadCnt' = [uploadCnt EXCEPT ![u] = @ + 1]
    /\ announced' = [announced EXCEPT ![u] = IF Complete(u, uploadCnt[u] + 1) THEN @ + 1 ELSE @]
    /\ UNCHANGED <<size, server, temp>>

\* fetch fails: the request or its response is lost.  The promise is rejected
\* and onloadend ends at its await.  The server may know nothing of it.
FetchRejects(u, i) ==
    /\ fetch[u][i] = "pending"
    /\ fetch' = [fetch EXCEPT ![u][i] = "rejected"]
    /\ \/ server' = server
       \/ /\ server[u][i] = "sent"
          /\ server' = [server EXCEPT ![u][i] = "gone"]
    /\ UNCHANGED <<size, uploadCnt, announced, temp>>

-----------------------------------------------------------------------------
(***************************************************************************)
(* HomeController.Upload.  No chunk is empty, so the branch for an invalid *)
(* chunk is never taken.                                                   *)
(***************************************************************************)

\* Mutant of FileFree: the file is opened for sharing.
FileShared(i) == TRUE

\* new FileStream(path, FileMode.Create) shares the file with readers only.
FileFree(i) == \A v \in Uploads : server[v][i] # "writing"

\* The file is created, or emptied, and the request awaits CopyToAsync.
OpenFile(u, i) ==
    /\ server[u][i] = "sent"
    /\ FileFree(i)
    /\ server' = [server EXCEPT ![u][i] = "writing"]
    /\ temp' = [temp EXCEPT ![i] = {}]
    /\ UNCHANGED <<size, fetch, uploadCnt, announced>>

\* Another request has the file open: IOException, status 500.
OpenFails(u, i) ==
    /\ server[u][i] = "sent"
    /\ ~FileFree(i)
    /\ server' = [server EXCEPT ![u][i] = "refused"]
    /\ UNCHANGED <<size, fetch, uploadCnt, announced, temp>>

\* CopyToAsync writes the next byte.
CopyByte(u, i) ==
    /\ server[u][i] = "writing"
    /\ \E b \in Chunk(u, i) \ temp[i] :
          /\ \A c \in Chunk(u, i) \ temp[i] : b[2] <= c[2]
          /\ temp' = [temp EXCEPT ![i] = @ \cup {b}]
    /\ UNCHANGED <<size, fetch, uploadCnt, announced, server>>

\* CopyToAsync returns, the stream is closed and the request answered.
Save(u, i) ==
    /\ server[u][i] = "writing"
    /\ Chunk(u, i) \subseteq temp[i]
    /\ server' = [server EXCEPT ![u][i] = "saved"]
    /\ UNCHANGED <<size, fetch, uploadCnt, announced, temp>>

\* CopyToAsync throws: the stream is closed, what was written stays, and the
\* answer is status 500.
CopyFails(u, i) ==
    /\ server[u][i] = "writing"
    /\ server' = [server EXCEPT ![u][i] = "failed"]
    /\ UNCHANGED <<size, fetch, uploadCnt, announced, temp>>

\* The server process dies while it writes and is started again: the requests
\* it had fail on the page, the files stay as they are.
ServerDies ==
    LET Lost(u, i) == server[u][i] \in {"sent", "writing"}
    IN  /\ \E u \in Uploads, i \in Slots : server[u][i] = "writing"
        /\ server' = [u \in Uploads |-> [i \in Slots |->
                        CASE server[u][i] = "sent" -> "gone"
                          [] server[u][i] = "writing" -> "failed"
                          [] OTHER -> server[u][i]]]
        /\ fetch' = [u \in Uploads |-> [i \in Slots |->
                        IF Lost(u, i) THEN "rejected" ELSE fetch[u][i]]]
        /\ UNCHANGED <<size, uploadCnt, announced, temp>>

-----------------------------------------------------------------------------
ServerStep(u, i) == OpenFile(u, i) \/ OpenFails(u, i) \/ CopyByte(u, i) \/ Save(u, i)

ChunkStep(u, i) == OnLoadEnd(u, i) \/ Answer(u, i) \/ ServerStep(u, i)

Next ==
    \/ \E u \in Uploads : Click(u)
    \/ \E u \in Uploads, i \in Slots :
          ChunkStep(u, i) \/ FetchRejects(u, i) \/ CopyFails(u, i)
    \/ ServerDies

\* Readers end, responses are handled and the server works on its requests.
\* Nobody has to click, and nothing has to fail.
Fairness == \A u \in Uploads, i \in Slots : WF_vars(ChunkStep(u, i))

Spec == Init /\ [][Next]_vars /\ Fairness

-----------------------------------------------------------------------------
(***************************************************************************)
(* Properties.                                                             *)
(***************************************************************************)
Touched(u, i) == server[u][i] \in {"writing", "saved", "failed"}

\* The byte of u's file at position b belongs into the file b \div ChunkSize.
Belongs(u, i) == {<<u, b>> : b \in {c \in 0 .. size[u] : c < size[u] /\ c \div ChunkSize = i}}

\* "File upload complete!!" appears once at most, and only after every chunk of
\* the file was sent and answered, however the callbacks interleave
\* (uploadCnt in upload.js).
CompleteOnce ==
    \A u \in Uploads :
        /\ announced[u] <= 1
        /\ announced[u] = 1 => \A b \in 0 .. size[u] :
              b < size[u] => fetch[u][b \div ChunkSize] = "answered"

\* After a complete upload none of whose requests failed, and with no other
\* upload in its files, the files of TempFolder put together are the file: each
\* byte is in the chunk where it belongs, and nothing else is.
AnnouncedStored ==
    \A u \in Uploads :
        (/\ announced[u] = 1
         /\ \A i \in Slots : server[u][i] \notin {"refused", "failed"}
         /\ \A v \in Uploads \ {u}, i \in Slots : ~Touched(v, i))
        => \A i \in Slots : temp[i] = Belongs(u, i)

\* Two uploads use the same file names.  Still no file holds bytes of both: a
\* file that nobody writes, and on which no write broke off, is one whole chunk
\* of one upload (FileStream's sharing in HomeController.Upload).
NoTornChunk ==
    \A i \in Slots :
        \/ temp[i] = {}
        \/ \E u \in Uploads : server[u][i] \in {"writing", "failed"}
        \/ \E u \in Uploads : temp[i] = Belongs(u, i)

\* A started upload ends: it is announced, unless a request was lost.  Answers
\* with an error status count like any other (upload.js does not look).
UploadEnds ==
    \A u \in Uploads :
        (\E i \in Slots : fetch[u][i] = "reading")
        ~> (announced[u] = 1 \/ \E i \in Slots : fetch[u][i] = "rejected")
=============================================================================
