---------------------------- MODULE UploadProofs ----------------------------
(***************************************************************************)
(* Proofs about the chunked upload, for any uploads, file sizes and chunk  *)
(* size.                                                                   *)
(***************************************************************************)
EXTENDS Upload, Integers, FiniteSetTheorems, TLAPS

\* The quotient and the remainder of a division by CHUNK_SIZE.
LEMMA DivFacts ==
    ASSUME NEW n \in Nat
    PROVE  /\ n \div ChunkSize \in Nat
           /\ n % ChunkSize \in 0 .. ChunkSize - 1
           /\ n = ChunkSize * (n \div ChunkSize) + (n % ChunkSize)
  BY UploadAssumption

\* A chunk ends where the next one starts.
LEMMA Monotone ==
    ASSUME NEW i \in Nat, NEW j \in Nat, i < j
    PROVE  ChunkSize * i + ChunkSize <= ChunkSize * j
  BY UploadAssumption

\* Quotient and remainder are determined by what they add up to.
LEMMA DivUnique ==
    ASSUME NEW n \in Nat, NEW q \in Nat, NEW r \in Nat, r < ChunkSize, n = ChunkSize * q + r
    PROVE  n \div ChunkSize = q /\ n % ChunkSize = r
  BY UploadAssumption

\* The loop starts at the multiples of CHUNK_SIZE below the size of the file.
LEMMA StartFacts ==
    ASSUME NEW n \in Nat, NEW start \in Starts(n)
    PROVE  /\ start \in Nat /\ start < n
           /\ Index(start) \in Nat
           /\ start = ChunkSize * Index(start)
  <1>1. start \in Nat /\ start < n /\ start % ChunkSize = 0
    BY DEF Starts
  <1> QED
    BY <1>1, DivFacts, UploadAssumption DEF Index

LEMMA IndexStart ==
    ASSUME NEW n \in Nat, NEW i \in Nat, ChunkSize * i < n
    PROVE  ChunkSize * i \in Starts(n) /\ Index(ChunkSize * i) = i
  <1>1. ChunkSize * i \in Nat
    BY UploadAssumption
  <1>2. (ChunkSize * i) \div ChunkSize = i /\ (ChunkSize * i) % ChunkSize = 0
    <2>1. 0 \in Nat /\ 0 < ChunkSize /\ ChunkSize * i = ChunkSize * i + 0
      BY <1>1, UploadAssumption
    <2> QED
      BY <1>1, <2>1, DivUnique
  <1> QED
    BY <1>1, <1>2 DEF Starts, Index

\* The chunks of a file of n bytes have the indexes 0 to
\* Math.ceil(n / CHUNK_SIZE) - 1: the loop and totalChunks agree.
LEMMA IndexesInterval ==
    ASSUME NEW n \in Nat
    PROVE  TotalChunks(n) \in Nat /\ Indexes(n) = 0 .. TotalChunks(n) - 1
  <1> DEFINE m == n + ChunkSize - 1
  <1> DEFINE t == TotalChunks(n)
  <1>1. m \in Nat
    BY UploadAssumption
  <1>2. /\ t \in Nat
        /\ ChunkSize * t \in Nat
        /\ ChunkSize * t <= n + ChunkSize - 1
        /\ n + ChunkSize - 1 < ChunkSize * t + ChunkSize
    <2>1. t = m \div ChunkSize
      BY DEF TotalChunks
    <2>2. t \in Nat /\ m % ChunkSize \in 0 .. ChunkSize - 1 /\ m = ChunkSize * t + (m % ChunkSize)
      BY <1>1, <2>1, DivFacts
    <2>3. ChunkSize * t \in Nat
      BY <2>2, UploadAssumption
    <2> HIDE DEF t
    <2> QED
      BY <2>2, <2>3, UploadAssumption
  <1> HIDE DEF t
  <1>3. ASSUME NEW i \in Indexes(n) PROVE i \in 0 .. t - 1
    <2>1. PICK start \in Starts(n) : i = Index(start)
      BY DEF Indexes
    <2>2. i \in Nat /\ ChunkSize * i \in Nat /\ ChunkSize * i < n
      BY <2>1, StartFacts
    <2>3. i < t
      <3>1. SUFFICES ASSUME ~(i < t) PROVE FALSE
        OBVIOUS
      <3>2. t < i + 1 /\ i + 1 \in Nat
        BY <3>1, <2>2, <1>2
      <3>3. ChunkSize * t + ChunkSize <= ChunkSize * (i + 1)
        BY <3>2, <1>2, Monotone
      <3>4. ChunkSize * (i + 1) = ChunkSize * i + ChunkSize
        BY <2>2, UploadAssumption
      <3> QED
        BY <3>3, <3>4, <2>2, <1>2, UploadAssumption
    <2> QED
      BY <2>2, <2>3, <1>2
  <1>4. ASSUME NEW i \in 0 .. t - 1 PROVE i \in Indexes(n)
    <2>1. i \in Nat /\ i < t
      BY <1>2
    <2>2. ChunkSize * i \in Nat /\ ChunkSize * i + ChunkSize <= ChunkSize * t
      BY <2>1, <1>2, Monotone, UploadAssumption
    <2>3. ChunkSize * i < n
      BY <2>2, <1>2, UploadAssumption
    <2> QED
      BY <2>1, <2>3, IndexStart DEF Indexes
  <1> QED
    BY <1>2, <1>3, <1>4 DEF t

-----------------------------------------------------------------------------
(***************************************************************************)
(* What the page's counters say of its requests.                           *)
(***************************************************************************)

\* The chunks of u that were answered.
Answered(u) == {i \in Slots : fetch[u][i] = "answered"}

\* Only chunks of the file are requested, on the page and on the server.
OwnChunks ==
    \A u \in Uploads, i \in Slots :
        fetch[u][i] # "none" \/ server[u][i] # "none" => i \in Indexes(size[u])

\* uploadCnt counts the answered chunks, and the announcement was made when it
\* had counted all of them.
Counted ==
    \A u \in Uploads :
        /\ uploadCnt[u] = Cardinality(Answered(u))
        /\ announced[u] = IF Answered(u) # {} /\ Answered(u) = Indexes(size[u]) THEN 1 ELSE 0

\* A request reaches the server after the chunk was read, and is answered only
\* when it ended there.
RequestOrder ==
    \A u \in Uploads, i \in Slots :
        /\ fetch[u][i] \in {"none", "reading"} => server[u][i] = "none"
        /\ fetch[u][i] = "answered" => server[u][i] \in {"refused", "saved", "failed"}

PageInv == OwnChunks /\ RequestOrder /\ Counted

(***************************************************************************)
(* What the requests on the server say of the files.                       *)
(***************************************************************************)

\* A file that is open for writing is open once, and holds bytes of its chunk.
OneWriter(i) ==
    \A u \in Uploads : server[u][i] = "writing" =>
        /\ temp[i] \subseteq Chunk(u, i)
        /\ \A v \in Uploads : server[v][i] = "writing" => v = u

\* A file nobody has written is empty, one that is not being written and on
\* which no write broke off is the chunk of an upload that saved it.
WholeChunk(i) ==
    \/ temp[i] = {} /\ \A u \in Uploads : ~Touched(u, i)
    \/ \E u \in Uploads : server[u][i] \in {"writing", "failed"}
    \/ \E u \in Uploads : server[u][i] = "saved" /\ temp[i] = Chunk(u, i)

FileInv == \A i \in Slots : OneWriter(i) /\ WholeChunk(i)

\* The invariant of the page and the server together.
IInv == TypeOK /\ PageInv /\ FileInv

-----------------------------------------------------------------------------
(***************************************************************************)
(* Types.                                                                  *)
(***************************************************************************)

\* A chunk is made of bytes of the file.
LEMMA ChunkBytes ==
    ASSUME TypeOK, NEW u \in Uploads, NEW i
    PROVE  Chunk(u, i) \subseteq Bytes
  <1>1. SUFFICES ASSUME NEW x \in Chunk(u, i) PROVE x \in Bytes
    OBVIOUS
  <1>2. size[u] \in Nat
    BY UploadAssumption DEF TypeOK
  <1>3. PICK c \in 0 .. size[u] :
            /\ x = <<u, c>>
            /\ \E start \in Starts(size[u]) :
                  Index(start) = i /\ start <= c /\ c < End(size[u], start)
    BY <1>1 DEF Chunk
  <1>4. c < size[u]
    <2>1. PICK start \in Starts(size[u]) : c < End(size[u], start)
      BY <1>3
    <2>2. start \in Nat
      BY <2>1, <1>2, StartFacts
    <2> QED
      BY <1>2, <2>1, <2>2, UploadAssumption DEF End
  <1> QED
    BY <1>3, <1>4 DEF Bytes

LEMMA InitTypeOK == Init => TypeOK
  BY DEF Init, TypeOK

\* Every step keeps the types.
LEMMA NextTypeOK == TypeOK /\ [Next]_vars => TypeOK'
  <1> SUFFICES ASSUME TypeOK, [Next]_vars PROVE TypeOK'
    OBVIOUS
  <1>0. ASSUME size' = size PROVE Bytes' = Bytes
    BY <1>0 DEF Bytes
  <1>1. ASSUME NEW u \in Uploads, Click(u) PROVE TypeOK'
    BY <1>0, <1>1 DEF Click, TypeOK
  <1>2. ASSUME NEW u \in Uploads, NEW i \in Slots, OnLoadEnd(u, i) PROVE TypeOK'
    BY <1>0, <1>2 DEF OnLoadEnd, TypeOK
  <1>3. ASSUME NEW u \in Uploads, NEW i \in Slots, Answer(u, i) PROVE TypeOK'
    BY <1>0, <1>3 DEF Answer, TypeOK
  <1>4. ASSUME NEW u \in Uploads, NEW i \in Slots, FetchRejects(u, i) PROVE TypeOK'
    <2>1. CASE server' = server
      BY <1>0, <1>4, <2>1 DEF FetchRejects, TypeOK
    <2>2. CASE server' = [server EXCEPT ![u][i] = "gone"]
      BY <1>0, <1>4, <2>2 DEF FetchRejects, TypeOK
    <2> QED
      BY <1>4, <2>1, <2>2 DEF FetchRejects
  <1>5. ASSUME NEW u \in Uploads, NEW i \in Slots, OpenFile(u, i) PROVE TypeOK'
    BY <1>0, <1>5 DEF OpenFile, TypeOK
  <1>6. ASSUME NEW u \in Uploads, NEW i \in Slots, OpenFails(u, i) PROVE TypeOK'
    BY <1>0, <1>6 DEF OpenFails, TypeOK
  <1>7. ASSUME NEW u \in Uploads, NEW i \in Slots, CopyByte(u, i) PROVE TypeOK'
    <2>1. PICK b \in Chunk(u, i) : temp' = [temp EXCEPT ![i] = @ \cup {b}]
      BY <1>7 DEF CopyByte
    <2>2. temp' \in [Slots -> SUBSET Bytes]
      BY <2>1, ChunkBytes DEF TypeOK
    <2> QED
      BY <1>0, <1>7, <2>2 DEF CopyByte, TypeOK
  <1>8. ASSUME NEW u \in Uploads, NEW i \in Slots, Save(u, i) PROVE TypeOK'
    BY <1>0, <1>8 DEF Save, TypeOK
  <1>9. ASSUME NEW u \in Uploads, NEW i \in Slots, CopyFails(u, i) PROVE TypeOK'
    BY <1>0, <1>9 DEF CopyFails, TypeOK
  <1>10. ASSUME ServerDies PROVE TypeOK'
    BY <1>0, <1>10 DEF ServerDies, TypeOK
  <1>11. ASSUME UNCHANGED vars PROVE TypeOK'
    BY <1>0, <1>11 DEF vars, TypeOK
  <1> QED
    BY <1>1, <1>2, <1>3, <1>4, <1>5, <1>6, <1>7, <1>8, <1>9, <1>10, <1>11
    DEF Next, ChunkStep, ServerStep

\* The page's requests, the server's and the stored bytes keep their types.
THEOREM TypeCorrect == Spec => []TypeOK
  BY InitTypeOK, NextTypeOK, PTL DEF Spec

-----------------------------------------------------------------------------
(***************************************************************************)
(* The page's counters.                                                    *)
(***************************************************************************)

\* The chunks of a file are some of the slots, as many as totalChunks says.
LEMMA IndexesFacts ==
    ASSUME TypeOK, NEW u \in Uploads
    PROVE  /\ Indexes(size[u]) \subseteq Slots
           /\ IsFiniteSet(Indexes(size[u]))
           /\ Cardinality(Indexes(size[u])) = TotalChunks(size[u])
  <1>1. size[u] \in Sizes /\ size[u] \in Nat
    BY UploadAssumption DEF TypeOK
  <1>2. TotalChunks(size[u]) \in Nat /\ Indexes(size[u]) = 0 .. TotalChunks(size[u]) - 1
    BY <1>1, IndexesInterval
  <1>3. /\ IsFiniteSet(0 .. TotalChunks(size[u]) - 1)
        /\ Cardinality(0 .. TotalChunks(size[u]) - 1) = TotalChunks(size[u])
    BY <1>2, FS_Interval
  <1> QED
    BY <1>1, <1>2, <1>3 DEF Slots

\* Answered chunks are chunks of the file.
LEMMA AnsweredFacts ==
    ASSUME TypeOK, OwnChunks, NEW u \in Uploads
    PROVE  Answered(u) \subseteq Indexes(size[u]) /\ IsFiniteSet(Answered(u))
  <1>1. Answered(u) \subseteq Indexes(size[u])
    BY DEF Answered, OwnChunks
  <1> QED
    BY <1>1, IndexesFacts, FS_Subset

LEMMA InitPageInv == Init => PageInv
  <1> SUFFICES ASSUME Init PROVE PageInv
    OBVIOUS
  <1>1. \A u \in Uploads : Answered(u) = {}
    BY DEF Init, Answered
  <1>2. Counted
    BY <1>1, FS_EmptySet DEF Init, Counted
  <1> QED
    BY <1>2 DEF Init, PageInv, OwnChunks, RequestOrder

\* A step that answers nothing leaves the counters right.
LEMMA CountedKept ==
    ASSUME Counted, UNCHANGED <<size, uploadCnt, announced>>,
           \A u \in Uploads : Answered(u)' = Answered(u)
    PROVE  Counted'
  BY DEF Counted

\* An answer is counted, and the last one is announced.
LEMMA AnswerCounted ==
    ASSUME TypeOK, OwnChunks, Counted, NEW u \in Uploads, NEW i \in Slots, Answer(u, i)
    PROVE  Counted'
  <1>1. Answered(u)' = Answered(u) \cup {i} /\ i \notin Answered(u)
    BY DEF Answered, Answer, TypeOK
  <1>2. i \in Indexes(size[u])
    BY DEF Answer, OwnChunks
  <1>3. /\ IsFiniteSet(Answered(u)) /\ Answered(u) \subseteq Indexes(size[u])
        /\ IsFiniteSet(Answered(u)')
        /\ Cardinality(Answered(u)') = Cardinality(Answered(u)) + 1
    BY <1>1, AnsweredFacts, FS_AddElement
  <1>4. uploadCnt'[u] = Cardinality(Answered(u)')
    BY <1>3 DEF Answer, TypeOK, Counted
  <1>5. Answered(u) # Indexes(size[u]) /\ announced[u] = 0
    BY <1>1, <1>2 DEF Counted
  <1>6. Complete(u, uploadCnt[u] + 1) <=> Answered(u)' = Indexes(size[u])
    <2>1. Answered(u)' \in SUBSET Indexes(size[u])
      BY <1>1, <1>2, <1>3
    <2>2. Cardinality(Answered(u)') = Cardinality(Indexes(size[u]))
          <=> Answered(u)' = Indexes(size[u])
      BY <2>1, IndexesFacts, FS_Subset
    <2>3. uploadCnt[u] + 1 = Cardinality(Answered(u)')
      BY <1>3 DEF Counted
    <2> QED
      BY <2>2, <2>3, IndexesFacts DEF Complete
  <1>7. announced'[u] = IF Answered(u)' = Indexes(size[u]) THEN 1 ELSE 0
    BY <1>5, <1>6 DEF Answer, TypeOK
  <1>8. ASSUME NEW v \in Uploads, v # u
        PROVE  /\ Answered(v)' = Answered(v)
               /\ uploadCnt'[v] = uploadCnt[v] /\ announced'[v] = announced[v]
    BY <1>8 DEF Answer, Answered, TypeOK
  <1> QED
    BY <1>1, <1>4, <1>7, <1>8 DEF Answer, Counted

\* Every step keeps the counters and the order of a request's two sides.
LEMMA NextPageInv == TypeOK /\ PageInv /\ [Next]_vars => PageInv'
  <1> SUFFICES ASSUME TypeOK, OwnChunks, RequestOrder, Counted, [Next]_vars PROVE PageInv'
    BY DEF PageInv
  <1>1. ASSUME NEW u \in Uploads, Click(u) PROVE PageInv'
    <2>1. \A v \in Uploads : Answered(v)' = Answered(v)
      BY <1>1 DEF Click, Answered, TypeOK
    <2>2. OwnChunks'
      BY <1>1 DEF Click, OwnChunks, TypeOK
    <2>3. RequestOrder'
      BY <1>1 DEF Click, RequestOrder, TypeOK
    <2> QED
      BY <1>1, <2>1, <2>2, <2>3, CountedKept DEF Click, PageInv
  <1>2. ASSUME NEW u \in Uploads, NEW i \in Slots, OnLoadEnd(u, i) PROVE PageInv'
    <2>1. \A v \in Uploads : Answered(v)' = Answered(v)
      BY <1>2 DEF OnLoadEnd, Answered, TypeOK
    <2>2. OwnChunks'
      BY <1>2 DEF OnLoadEnd, OwnChunks, TypeOK
    <2>3. RequestOrder'
      BY <1>2 DEF OnLoadEnd, RequestOrder, TypeOK
    <2> QED
      BY <1>2, <2>1, <2>2, <2>3, CountedKept DEF OnLoadEnd, PageInv
  <1>3. ASSUME NEW u \in Uploads, NEW i \in Slots, Answer(u, i) PROVE PageInv'
    <2>1. Counted'
      BY <1>3, AnswerCounted
    <2>2. OwnChunks'
      BY <1>3 DEF Answer, OwnChunks, TypeOK
    <2>3. RequestOrder'
      BY <1>3 DEF Answer, RequestOrder, TypeOK
    <2> QED
      BY <2>1, <2>2, <2>3 DEF PageInv
  <1>4. ASSUME NEW u \in Uploads, NEW i \in Slots, FetchRejects(u, i) PROVE PageInv'
    <2>1. \A v \in Uploads : Answered(v)' = Answered(v)
      BY <1>4 DEF FetchRejects, Answered, TypeOK
    <2>2. OwnChunks'
      BY <1>4 DEF FetchRejects, OwnChunks, TypeOK
    <2>3. RequestOrder'
      BY <1>4 DEF FetchRejects, RequestOrder, TypeOK
    <2> QED
      BY <1>4, <2>1, <2>2, <2>3, CountedKept DEF FetchRejects, PageInv
  <1>5. ASSUME NEW u \in Uploads, NEW i \in Slots, OpenFile(u, i) PROVE PageInv'
    <2>1. \A v \in Uploads : Answered(v)' = Answered(v)
      BY <1>5 DEF OpenFile, Answered, TypeOK
    <2>2. OwnChunks'
      BY <1>5 DEF OpenFile, OwnChunks, TypeOK
    <2>3. RequestOrder'
      BY <1>5 DEF OpenFile, RequestOrder, TypeOK
    <2> QED
      BY <1>5, <2>1, <2>2, <2>3, CountedKept DEF OpenFile, PageInv
  <1>6. ASSUME NEW u \in Uploads, NEW i \in Slots, OpenFails(u, i) PROVE PageInv'
    <2>1. \A v \in Uploads : Answered(v)' = Answered(v)
      BY <1>6 DEF OpenFails, Answered, TypeOK
    <2>2. OwnChunks'
      BY <1>6 DEF OpenFails, OwnChunks, TypeOK
    <2>3. RequestOrder'
      BY <1>6 DEF OpenFails, RequestOrder, TypeOK
    <2> QED
      BY <1>6, <2>1, <2>2, <2>3, CountedKept DEF OpenFails, PageInv
  <1>7. ASSUME NEW u \in Uploads, NEW i \in Slots, CopyByte(u, i) PROVE PageInv'
    <2>1. \A v \in Uploads : Answered(v)' = Answered(v)
      BY <1>7 DEF CopyByte, Answered, TypeOK
    <2>2. OwnChunks'
      BY <1>7 DEF CopyByte, OwnChunks, TypeOK
    <2>3. RequestOrder'
      BY <1>7 DEF CopyByte, RequestOrder, TypeOK
    <2> QED
      BY <1>7, <2>1, <2>2, <2>3, CountedKept DEF CopyByte, PageInv
  <1>8. ASSUME NEW u \in Uploads, NEW i \in Slots, Save(u, i) PROVE PageInv'
    <2>1. \A v \in Uploads : Answered(v)' = Answered(v)
      BY <1>8 DEF Save, Answered, TypeOK
    <2>2. OwnChunks'
      BY <1>8 DEF Save, OwnChunks, TypeOK
    <2>3. RequestOrder'
      BY <1>8 DEF Save, RequestOrder, TypeOK
    <2> QED
      BY <1>8, <2>1, <2>2, <2>3, CountedKept DEF Save, PageInv
  <1>9. ASSUME NEW u \in Uploads, NEW i \in Slots, CopyFails(u, i) PROVE PageInv'
    <2>1. \A v \in Uploads : Answered(v)' = Answered(v)
      BY <1>9 DEF CopyFails, Answered, TypeOK
    <2>2. OwnChunks'
      BY <1>9 DEF CopyFails, OwnChunks, TypeOK
    <2>3. RequestOrder'
      BY <1>9 DEF CopyFails, RequestOrder, TypeOK
    <2> QED
      BY <1>9, <2>1, <2>2, <2>3, CountedKept DEF CopyFails, PageInv
  <1>10. ASSUME ServerDies PROVE PageInv'
    <2>1. \A v \in Uploads : Answered(v)' = Answered(v)
      BY <1>10 DEF ServerDies, Answered, RequestOrder, TypeOK
    <2>2. OwnChunks'
      BY <1>10 DEF ServerDies, OwnChunks, TypeOK
    <2>3. RequestOrder'
      BY <1>10 DEF ServerDies, RequestOrder, TypeOK
    <2> QED
      BY <1>10, <2>1, <2>2, <2>3, CountedKept DEF ServerDies, PageInv
  <1>11. ASSUME UNCHANGED vars PROVE PageInv'
    BY <1>11 DEF vars, PageInv, OwnChunks, RequestOrder, Counted, Answered
  <1> QED
    BY <1>1, <1>2, <1>3, <1>4, <1>5, <1>6, <1>7, <1>8, <1>9, <1>10, <1>11 DEF Next, ChunkStep, ServerStep

\* The byte at position b of a file of n bytes is in the chunk b \div CHUNK_SIZE.
LEMMA ByteIndex ==
    ASSUME NEW n \in Nat, NEW b \in Nat, b < n
    PROVE  /\ b \div ChunkSize \in Nat
           /\ ChunkSize * (b \div ChunkSize) \in Starts(n)
           /\ Index(ChunkSize * (b \div ChunkSize)) = b \div ChunkSize
           /\ ChunkSize * (b \div ChunkSize) <= b
           /\ b < ChunkSize * (b \div ChunkSize) + ChunkSize
           /\ b \div ChunkSize \in Indexes(n)
  <1> DEFINE q == b \div ChunkSize
  <1>1. q \in Nat /\ b % ChunkSize \in 0 .. ChunkSize - 1 /\ b = ChunkSize * q + (b % ChunkSize)
    BY DivFacts
  <1>2. ChunkSize * q \in Nat
    BY <1>1, UploadAssumption
  <1>3. ChunkSize * q <= b /\ b < ChunkSize * q + ChunkSize
    <2> HIDE DEF q
    <2> QED
      BY <1>1, <1>2, UploadAssumption
  <1>4. ChunkSize * q \in Starts(n) /\ Index(ChunkSize * q) = q
    <2> HIDE DEF q
    <2> QED
      BY <1>1, <1>2, <1>3, IndexStart
  <1> QED
    BY <1>1, <1>3, <1>4 DEF Indexes

\* "File upload complete!!" appears once at most, and only after every chunk of
\* the file was sent and answered, for every file and chunk size and however the
\* callbacks of upload.js interleave.
THEOREM AnnouncedOnce == Spec => []CompleteOnce
  <1>1. TypeOK /\ PageInv => CompleteOnce
    <2> SUFFICES ASSUME TypeOK, OwnChunks, Counted, NEW u \in Uploads
                 PROVE  /\ announced[u] <= 1
                        /\ announced[u] = 1 => \A b \in 0 .. size[u] :
                              b < size[u] => fetch[u][b \div ChunkSize] = "answered"
      BY DEF PageInv, CompleteOnce
    <2>1. announced[u] <= 1
      BY DEF Counted
    <2>2. ASSUME announced[u] = 1, NEW b \in 0 .. size[u], b < size[u]
          PROVE  fetch[u][b \div ChunkSize] = "answered"
      <3>1. Answered(u) = Indexes(size[u])
        BY <2>2 DEF Counted
      <3>2. size[u] \in Nat
        BY UploadAssumption DEF TypeOK
      <3>3. b \div ChunkSize \in Indexes(size[u])
        <4>1. b \in Nat
          BY <3>2
        <4> QED
          BY <3>2, <4>1, <2>2, ByteIndex
      <3> QED
        BY <3>1, <3>3 DEF Answered
    <2> QED
      BY <2>1, <2>2
  <1> QED
    BY <1>1, InitTypeOK, NextTypeOK, InitPageInv, NextPageInv, PTL DEF Spec

-----------------------------------------------------------------------------
(***************************************************************************)
(* The files.                                                              *)
(***************************************************************************)

\* A slice ends with its chunk or with the file.
LEMMA EndFacts ==
    ASSUME NEW n \in Nat, NEW start \in Nat, NEW c \in Nat
    PROVE  c < End(n, start) <=> c < n /\ c < start + ChunkSize
  BY UploadAssumption DEF End

\* file.slice cuts a file where the division of a byte's position says.
LEMMA ChunkBelongs ==
    ASSUME TypeOK, NEW u \in Uploads, NEW i
    PROVE  Chunk(u, i) = Belongs(u, i)
  <1> DEFINE n == size[u]
  <1>1. n \in Nat
    BY UploadAssumption DEF TypeOK
  <1>2. ASSUME NEW c \in Nat, NEW start \in Starts(n),
               Index(start) = i, start <= c, c < End(n, start)
        PROVE  c < n /\ c \div ChunkSize = i
    <2>1. start \in Nat /\ i \in Nat /\ start = ChunkSize * i
      BY <1>1, <1>2, StartFacts
    <2>2. c < n /\ c < start + ChunkSize
      BY <1>1, <1>2, <2>1, EndFacts
    <2>3. c - start \in Nat /\ c - start < ChunkSize /\ c = start + (c - start)
      BY <1>2, <2>1, <2>2, UploadAssumption
    <2> HIDE DEF n
    <2>4. c = ChunkSize * i + (c - start)
      BY <2>1, <2>3
    <2> QED
      BY <2>1, <2>2, <2>3, <2>4, DivUnique
  <1>3. ASSUME NEW c \in Nat, c < n, c \div ChunkSize = i
        PROVE  \E start \in Starts(n) : Index(start) = i /\ start <= c /\ c < End(n, start)
    <2> DEFINE start == ChunkSize * (c \div ChunkSize)
    <2>1. start \in Starts(n) /\ Index(start) = i /\ start <= c /\ c < start + ChunkSize
      BY <1>1, <1>3, ByteIndex
    <2>2. start \in Nat
      BY <1>1, <2>1, StartFacts
    <2> HIDE DEF start, n
    <2>3. c < End(n, start)
      BY <1>1, <1>3, <2>1, <2>2, EndFacts
    <2> QED
      BY <2>1, <2>3
  <1>4. \A c \in 0 .. n : c \in Nat
    BY <1>1
  <1>5. {c \in 0 .. n : \E start \in Starts(n) :
                          Index(start) = i /\ start <= c /\ c < End(n, start)}
        = {c \in 0 .. n : c < n /\ c \div ChunkSize = i}
    <2> HIDE DEF n
    <2> QED
      BY <1>2, <1>3, <1>4
  <1> QED
    BY <1>5 DEF Chunk, Belongs

\* Chunks stay what they are: nobody changes a file while it is uploaded.
LEMMA ChunkKept ==
    ASSUME size' = size, NEW u, NEW i
    PROVE  Chunk(u, i)' = Chunk(u, i)
  BY DEF Chunk

LEMMA InitFileInv == Init => FileInv
  BY DEF Init, FileInv, OneWriter, WholeChunk, Touched

\* A file is as it was when only requests that have not opened it move on.
LEMMA FileKept ==
    ASSUME size' = size, NEW i, OneWriter(i), WholeChunk(i), temp'[i] = temp[i],
           \A u \in Uploads : server'[u][i] = server[u][i] \/ ~(Touched(u, i) \/ Touched(u, i)')
    PROVE  OneWriter(i)' /\ WholeChunk(i)'
  <1>1. \A u \in Uploads : Chunk(u, i)' = Chunk(u, i)
    BY ChunkKept
  <1>2. \A u \in Uploads : /\ server'[u][i] = "writing" <=> server[u][i] = "writing"
                           /\ server'[u][i] = "failed" <=> server[u][i] = "failed"
                           /\ server'[u][i] = "saved" <=> server[u][i] = "saved"
                           /\ Touched(u, i)' <=> Touched(u, i)
    BY DEF Touched
  <1>3. OneWriter(i)'
    BY <1>1, <1>2 DEF OneWriter
  <1>4. WholeChunk(i)'
    BY <1>1, <1>2 DEF WholeChunk
  <1> QED
    BY <1>3, <1>4

\* Every step keeps what the requests say of the files.
LEMMA NextFileInv == TypeOK /\ RequestOrder /\ FileInv /\ [Next]_vars => FileInv'
  <1> SUFFICES ASSUME TypeOK, RequestOrder, FileInv, [Next]_vars, NEW j \in Slots
               PROVE  OneWriter(j)' /\ WholeChunk(j)'
    BY DEF FileInv
  <1> DEFINE Goal == OneWriter(j)' /\ WholeChunk(j)'
  <1>0. OneWriter(j) /\ WholeChunk(j)
    BY DEF FileInv
  <1>1. ASSUME NEW u \in Uploads, Click(u) PROVE Goal
    BY <1>0, <1>1, FileKept DEF Click
  <1>2. ASSUME NEW u \in Uploads, NEW i \in Slots, OnLoadEnd(u, i) PROVE Goal
    <2>1. \A v \in Uploads : server'[v][j] = server[v][j] \/ ~(Touched(v, j) \/ Touched(v, j)')
      BY <1>2 DEF OnLoadEnd, Touched, TypeOK, RequestOrder
    <2> QED
      BY <1>0, <1>2, <2>1, FileKept DEF OnLoadEnd
  <1>3. ASSUME NEW u \in Uploads, NEW i \in Slots, Answer(u, i) PROVE Goal
    BY <1>0, <1>3, FileKept DEF Answer
  <1>4. ASSUME NEW u \in Uploads, NEW i \in Slots, FetchRejects(u, i) PROVE Goal
    <2>1. \A v \in Uploads : server'[v][j] = server[v][j] \/ ~(Touched(v, j) \/ Touched(v, j)')
      <3>1. CASE server' = server
        BY <3>1
      <3>2. CASE server[u][i] = "sent" /\ server' = [server EXCEPT ![u][i] = "gone"]
        BY <3>2 DEF Touched, TypeOK
      <3> QED
        BY <1>4, <3>1, <3>2 DEF FetchRejects
    <2> QED
      BY <1>0, <1>4, <2>1, FileKept DEF FetchRejects
  <1>5. ASSUME NEW u \in Uploads, NEW i \in Slots, OpenFile(u, i) PROVE Goal
    <2>1. CASE i = j
      <3>1. temp'[j] = {} /\ server'[u][j] = "writing"
        BY <1>5, <2>1 DEF OpenFile, TypeOK
      <3>2. \A v \in Uploads : server'[v][j] = "writing" => v = u
        BY <1>5, <2>1 DEF OpenFile, FileFree, TypeOK
      <3> QED
        BY <3>1, <3>2 DEF OneWriter, WholeChunk
    <2>2. CASE i # j
      <3>1. temp'[j] = temp[j] /\ \A v \in Uploads : server'[v][j] = server[v][j]
        BY <1>5, <2>2 DEF OpenFile, TypeOK
      <3> QED
        BY <1>0, <1>5, <3>1, FileKept DEF OpenFile
    <2> QED
      BY <2>1, <2>2
  <1>6. ASSUME NEW u \in Uploads, NEW i \in Slots, OpenFails(u, i) PROVE Goal
    <2>1. \A v \in Uploads : server'[v][j] = server[v][j] \/ ~(Touched(v, j) \/ Touched(v, j)')
      BY <1>6 DEF OpenFails, Touched, TypeOK
    <2> QED
      BY <1>0, <1>6, <2>1, FileKept DEF OpenFails
  <1>7. ASSUME NEW u \in Uploads, NEW i \in Slots, CopyByte(u, i) PROVE Goal
    <2>1. CASE i = j
      <3>1. server[u][j] = "writing" /\ server' = server /\ size' = size
        BY <1>7, <2>1 DEF CopyByte
      <3>2. temp'[j] \subseteq Chunk(u, j)
        <4>1. PICK b \in Chunk(u, j) : temp' = [temp EXCEPT ![j] = @ \cup {b}]
          BY <1>7, <2>1 DEF CopyByte
        <4>2. temp[j] \subseteq Chunk(u, j)
          BY <1>0, <3>1 DEF OneWriter
        <4> QED
          BY <4>1, <4>2 DEF TypeOK
      <3>3. Chunk(u, j)' = Chunk(u, j)
        BY <3>1, ChunkKept
      <3>4. OneWriter(j)'
        BY <1>0, <3>1, <3>2, <3>3 DEF OneWriter
      <3> QED
        BY <3>1, <3>4 DEF WholeChunk
    <2>2. CASE i # j
      <3>1. temp'[j] = temp[j]
        BY <1>7, <2>2 DEF CopyByte, TypeOK
      <3> QED
        BY <1>0, <1>7, <3>1, FileKept DEF CopyByte
    <2> QED
      BY <2>1, <2>2
  <1>8. ASSUME NEW u \in Uploads, NEW i \in Slots, Save(u, i) PROVE Goal
    <2>1. CASE i = j
      <3>1. /\ server[u][j] = "writing" /\ server'[u][j] = "saved"
            /\ \A v \in Uploads : v # u => server'[v][j] = server[v][j]
            /\ temp' = temp /\ size' = size
        BY <1>8, <2>1 DEF Save, TypeOK
      <3>2. temp'[j] = Chunk(u, j)'
        <4>1. temp[j] \subseteq Chunk(u, j)
          BY <1>0, <3>1 DEF OneWriter
        <4>2. Chunk(u, j) \subseteq temp[j]
          BY <1>8, <2>1 DEF Save
        <4>3. Chunk(u, j)' = Chunk(u, j)
          BY <3>1, ChunkKept
        <4>4. temp[j] = Chunk(u, j)
          BY <4>1, <4>2
        <4> QED
          BY <3>1, <4>3, <4>4
      <3>3. \A v \in Uploads : server'[v][j] # "writing"
        BY <1>0, <3>1 DEF OneWriter
      <3> QED
        BY <3>1, <3>2, <3>3 DEF OneWriter, WholeChunk
    <2>2. CASE i # j
      <3>1. \A v \in Uploads : server'[v][j] = server[v][j]
        BY <1>8, <2>2 DEF Save, TypeOK
      <3> QED
        BY <1>0, <1>8, <3>1, FileKept DEF Save
    <2> QED
      BY <2>1, <2>2
  <1>9. ASSUME NEW u \in Uploads, NEW i \in Slots, CopyFails(u, i) PROVE Goal
    <2>1. CASE i = j
      <3>1. /\ server[u][j] = "writing" /\ server'[u][j] = "failed"
            /\ \A v \in Uploads : v # u => server'[v][j] = server[v][j]
        BY <1>9, <2>1 DEF CopyFails, TypeOK
      <3>2. \A v \in Uploads : server'[v][j] # "writing"
        BY <1>0, <3>1 DEF OneWriter
      <3> QED
        BY <3>1, <3>2 DEF OneWriter, WholeChunk
    <2>2. CASE i # j
      <3>1. \A v \in Uploads : server'[v][j] = server[v][j]
        BY <1>9, <2>2 DEF CopyFails, TypeOK
      <3> QED
        BY <1>0, <1>9, <3>1, FileKept DEF CopyFails
    <2> QED
      BY <2>1, <2>2
  <1>10. ASSUME ServerDies PROVE Goal
    <2>1. CASE \E u \in Uploads : server[u][j] = "writing"
      <3>1. \E u \in Uploads : server'[u][j] = "failed"
        BY <1>10, <2>1 DEF ServerDies
      <3>2. \A v \in Uploads : server'[v][j] # "writing"
        BY <1>10 DEF ServerDies, TypeOK
      <3> QED
        BY <3>1, <3>2 DEF OneWriter, WholeChunk
    <2>2. CASE ~\E u \in Uploads : server[u][j] = "writing"
      <3>1. \A v \in Uploads :
                server'[v][j] = server[v][j] \/ ~(Touched(v, j) \/ Touched(v, j)')
        BY <1>10, <2>2 DEF ServerDies, Touched, TypeOK
      <3> QED
        BY <1>0, <1>10, <3>1, FileKept DEF ServerDies
    <2> QED
      BY <2>1, <2>2
  <1>11. ASSUME UNCHANGED vars PROVE Goal
    BY <1>0, <1>11, FileKept DEF vars
  <1> QED
    BY <1>1, <1>2, <1>3, <1>4, <1>5, <1>6, <1>7, <1>8, <1>9, <1>10, <1>11
    DEF Next, ChunkStep, ServerStep

\* Page and server keep their invariant.
LEMMA Inductive == Spec => []IInv
  <1>1. Init => IInv
    BY InitTypeOK, InitPageInv, InitFileInv DEF IInv
  <1>2. IInv /\ [Next]_vars => IInv'
    BY NextTypeOK, NextPageInv, NextFileInv DEF IInv, PageInv
  <1> QED
    BY <1>1, <1>2, PTL DEF Spec

\* No file of TempFolder holds bytes of two uploads: one that nobody writes, and on
\* which no write broke off, is one whole chunk of one upload, for any number of
\* uploads that use the same names (FileStream's sharing in HomeController.Upload).
THEOREM ChunksWhole == Spec => []NoTornChunk
  <1>1. IInv => NoTornChunk
    <2> SUFFICES ASSUME TypeOK, NEW i \in Slots, WholeChunk(i)
                 PROVE  \/ temp[i] = {}
                        \/ \E u \in Uploads : server[u][i] \in {"writing", "failed"}
                        \/ \E u \in Uploads : temp[i] = Belongs(u, i)
      BY DEF IInv, FileInv, NoTornChunk
    <2> QED
      BY ChunkBelongs DEF WholeChunk
  <1> QED
    BY <1>1, Inductive, PTL

\* After a complete upload none of whose requests failed, and with no other upload
\* in its files, the files of TempFolder put together are the file.
THEOREM AnnouncementTrue == Spec => []AnnouncedStored
  <1>1. IInv => AnnouncedStored
    <2> SUFFICES ASSUME IInv, NEW u \in Uploads, announced[u] = 1,
                        \A i \in Slots : server[u][i] \notin {"refused", "failed"},
                        \A v \in Uploads \ {u}, i \in Slots : ~Touched(v, i),
                        NEW i \in Slots
                 PROVE  temp[i] = Belongs(u, i)
      BY DEF AnnouncedStored
    <2>1. TypeOK /\ OwnChunks /\ RequestOrder /\ Counted /\ OneWriter(i) /\ WholeChunk(i)
      BY DEF IInv, PageInv, FileInv
    <2>2. Answered(u) = Indexes(size[u])
      BY <2>1 DEF Counted
    <2>3. CASE i \in Indexes(size[u])
      <3>1. server[u][i] = "saved"
        BY <2>1, <2>2, <2>3 DEF Answered, RequestOrder
      <3>2. temp[i] = Chunk(u, i)
        BY <2>1, <3>1 DEF WholeChunk, Touched
      <3> QED
        BY <2>1, <3>2, ChunkBelongs
    <2>4. CASE i \notin Indexes(size[u])
      <3>1. ~Touched(u, i)
        BY <2>1, <2>4 DEF OwnChunks, Touched
      <3>2. temp[i] = {}
        BY <2>1, <3>1 DEF WholeChunk, Touched
      <3>3. Belongs(u, i) = {}
        <4>1. SUFFICES ASSUME NEW c \in 0 .. size[u], c < size[u], c \div ChunkSize = i
                       PROVE  FALSE
          BY DEF Belongs
        <4>2. size[u] \in Nat
          BY <2>1, UploadAssumption DEF TypeOK
        <4>3. c \in Nat
          BY <4>2
        <4> QED
          BY <4>1, <4>2, <4>3, <2>4, ByteIndex
      <3> QED
        BY <3>2, <3>3
    <2> QED
      BY <2>3, <2>4
  <1> QED
    BY <1>1, Inductive, PTL
=============================================================================
