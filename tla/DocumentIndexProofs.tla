------------------------ MODULE DocumentIndexProofs ------------------------
(***************************************************************************)
(* Theorems about DocumentIndex, for any workers, texts, models, batches   *)
(* and attempts: every stored chunk has the vector of its own text, and an *)
(* upload answers with a document of its content and model.                *)
(***************************************************************************)
EXTENDS DocumentIndex, SequenceTheorems, TLAPS

USE DocumentAssumption

-----------------------------------------------------------------------------
(* The inductive invariant. *)

JobType ==
  [step : Steps, content : Contents, embedding_model : Models, embeddings : Seq(Vectors),
   attempt : 0 .. max_attempts - 1, document : 0 .. MaxUploads, created : BOOLEAN,
   chunk_count : Nat]

\* An upload that is not yet committed owns the id of its document; past that,
\* its document is one that was stored.
Owning == {"lookup", "embed", "insert", "commit", "existing"}
Embedded == {"insert", "commit"}
Referring == {"refresh", "describe", "done"}
\* It found no document of its content.
Absent == {"embed", "insert", "commit", "existing"}

\* Ids are given once, to a document or to an upload that may store it.
IdsUnique ==
  /\ \A d \in documents : d.id <= next_id
  /\ \A d, e \in documents : d.id = e.id => d = e
  /\ \A w \in Workers : job[w].document <= next_id
  /\ \A w \in Workers : job[w].step \in Owning =>
       /\ job[w].document # 0
       /\ \A d \in documents : d.id # job[w].document
       /\ \A v \in Workers : v # w => job[v].document # job[w].document

\* The vector the i-th chunk of a content has by a model.
VectorOf(m, c, i) == [model |-> m, text |-> chunks_of[c][i]]

\* What an upload has embedded are the first chunks of its content, not all of
\* them before the last batch.
EmbeddedInOrder(j) ==
  /\ j.step = "lookup" => j.embeddings = << >>
  /\ j.step \in Embedded \cup {"embed"} =>
       /\ \A i \in DOMAIN j.embeddings :
            j.embeddings[i] = VectorOf(j.embedding_model, j.content, i)
       /\ Len(j.embeddings) <= Len(chunks_of[j.content])
       /\ j.step = "embed" <=> Len(j.embeddings) < Len(chunks_of[j.content])

\* A document of the content that appears after the lookup is by this model.
RacesShareTheModel(j) ==
  j.step \in Absent => \A d \in documents : d.content = j.content => d.embedding_model = model

\* The document an upload refers to, while it is stored, is of its content and
\* model.
ReferenceMatches(j) ==
  j.step \in Referring => \A d \in documents : d.id = j.document =>
    /\ d.content = j.content
    /\ d.embedding_model = model
    /\ j.step = "done" => Len(d.embeddings) = j.chunk_count

\* What holds of each upload, which works with the model of the process.
JobOK(j) ==
  /\ j \in JobType
  /\ j.embedding_model = model
  /\ EmbeddedInOrder(j) /\ RacesShareTheModel(j) /\ ReferenceMatches(j)

Inv ==
  /\ TypeOK /\ IdsUnique
  /\ job \in [Workers -> JobType] /\ \A w \in Workers : JobOK(job[w])

-----------------------------------------------------------------------------
(* The job of an upload. *)

\* A request that failed, or never was, is fine.
LEMMA NoJobOK ==
  ASSUME NEW c \in Contents, model \in Models
  PROVE  JobOK(NoJob(c, model)) /\ NoJob(c, model).document = 0
                                /\ NoJob(c, model).step = "idle"
  <1> DEFINE j == NoJob(c, model)
  <1>1. /\ j.step = "idle" /\ j.content = c /\ j.embedding_model = model
        /\ j.embeddings = << >> /\ j.attempt = 0 /\ j.document = 0
        /\ j.created = FALSE /\ j.chunk_count = 0
    BY DEF NoJob
  <1>2. j \in JobType
    <2>1. << >> \in Seq(Vectors)
      OBVIOUS
    <2> QED BY <2>1 DEF NoJob, JobType, Steps
  <1> HIDE DEF j
  <1> QED BY <1>1, <1>2 DEF JobOK, EmbeddedInOrder, RacesShareTheModel, ReferenceMatches,
                            Embedded, Absent, Referring, j

\* The id of a job of w that is about to begin or go on is nobody else's.
IdIsFree(w, j) ==
  /\ j.step \in Owning =>
       /\ j.document # 0
       /\ \A d \in documents : d.id # j.document
       /\ \A v \in Workers : v # w => job[v].document # j.document
  /\ \A v \in Workers : v # w /\ job[v].step \in Owning => j.document # job[v].document

\* A step of one request that stores nothing keeps the invariant, if its job
\* stays fine and owns an id only it has.
LEMMA JobStepKeeps ==
  ASSUME Inv, NEW w \in Workers, NEW j, Update(w, j), JobOK(j),
         UNCHANGED <<model, documents, deletes>>,
         next_id' \in next_id .. MaxUploads, j.document <= next_id', IdIsFree(w, j),
         inserting' \in [Contents -> Workers \cup {Nobody}]
  PROVE  Inv'
  <1>0. TypeOK /\ IdsUnique /\ job \in [Workers -> JobType] /\ \A v \in Workers : JobOK(job[v])
    BY DEF Inv
  <1>1. job' \in [Workers -> JobType]
    BY <1>0 DEF Update, JobOK
  <1>2. job'[w] = j /\ \A v \in Workers : v # w => job'[v] = job[v]
    BY <1>0 DEF Update
  <1>3. \A v \in Workers : JobOK(job'[v])
    BY <1>0, <1>2
  <1>4. \A v \in Workers : JobOK(job[v])'
    BY <1>3 DEF JobOK, EmbeddedInOrder, RacesShareTheModel, ReferenceMatches
  <1>5. TypeOK'
    <2>1. next_id \in 0 .. MaxUploads /\ next_id' \in 0 .. MaxUploads
      BY <1>0 DEF TypeOK
    <2> QED BY <1>0, <1>1, <2>1 DEF TypeOK, JobType
  <1>6. IdsUnique'
    <2>1. /\ \A d \in documents : d.id \in Nat /\ d.id <= next_id
          /\ \A v \in Workers : job[v].document \in Nat /\ job[v].document <= next_id
          /\ next_id \in Nat /\ next_id' \in Nat /\ next_id <= next_id'
      BY <1>0 DEF TypeOK, IdsUnique, Documents, JobType
    <2>2. /\ \A d \in documents' : d.id <= next_id'
          /\ \A v \in Workers : job'[v].document <= next_id'
      BY <1>2, <2>1
    <2>3. \A d, e \in documents' : d.id = e.id => d = e
      BY <1>0 DEF IdsUnique
    <2>4. \A v \in Workers : job'[v].step \in Owning =>
             /\ job'[v].document # 0
             /\ \A d \in documents' : d.id # job'[v].document
             /\ \A u \in Workers : u # v => job'[u].document # job'[v].document
      BY <1>0, <1>2 DEF IdsUnique, IdIsFree
    <2> QED BY <2>2, <2>3, <2>4 DEF IdsUnique
  <1> QED BY <1>1, <1>4, <1>5, <1>6 DEF Inv

\* A failure keeps the invariant: the session rolls back and nothing stays.
LEMMA FailKeeps ==
  ASSUME Inv, NEW w \in Workers, job[w].step # "idle", Fail(w),
         UNCHANGED <<model, documents, next_id, deletes>>
  PROVE  Inv'
  <1>0. TypeOK /\ IdsUnique /\ job \in [Workers -> JobType] /\ \A v \in Workers : JobOK(job[v])
    BY DEF Inv
  <1> DEFINE j == NoJob(job[w].content, model)
  <1>1. JobOK(j) /\ j.document = 0 /\ j.step = "idle"
    BY <1>0, NoJobOK DEF TypeOK
  <1>2. Update(w, j)
    BY <1>0 DEF Fail, JobOK
  <1>3. inserting' \in [Contents -> Workers \cup {Nobody}]
    BY <1>0 DEF Fail, Rollback, TypeOK
  <1> HIDE DEF j
  <1>4. IdIsFree(w, j)
    BY <1>0, <1>1 DEF IdsUnique, IdIsFree, Owning
  <1>5. next_id' \in next_id .. MaxUploads /\ j.document <= next_id'
    BY <1>0, <1>1 DEF TypeOK
  <1> QED BY <1>0, <1>1, <1>2, <1>3, <1>4, <1>5, JobStepKeeps

\* A request keeps its document's id in the next step.
LEMMA SameIdKeeps ==
  ASSUME Inv, NEW w \in Workers, NEW j, Update(w, j), JobOK(j),
         UNCHANGED <<model, documents, next_id, deletes>>,
         j.document = job[w].document,
         j.step \in Owning => job[w].step \in Owning,
         inserting' \in [Contents -> Workers \cup {Nobody}]
  PROVE  Inv'
  <1>0. TypeOK /\ IdsUnique /\ job \in [Workers -> JobType]
    BY DEF Inv
  <1>1. next_id' \in next_id .. MaxUploads /\ j.document <= next_id'
    BY <1>0 DEF TypeOK, IdsUnique
  <1>2. IdIsFree(w, j)
    BY <1>0 DEF IdsUnique, IdIsFree
  <1> QED BY <1>1, <1>2, JobStepKeeps

\* A request now refers to a document that is stored, of its content and model.
LEMMA ReferKeeps ==
  ASSUME Inv, NEW w \in Workers, NEW d \in documents,
         d.content = job[w].content, d.embedding_model = model,
         Update(w, [job[w] EXCEPT !.document = d.id, !.step = "describe"]),
         UNCHANGED <<model, documents, next_id, inserting, deletes>>
  PROVE  Inv'
  <1>0. TypeOK /\ IdsUnique /\ job \in [Workers -> JobType] /\ JobOK(job[w])
    BY DEF Inv
  <1> DEFINE j == [job[w] EXCEPT !.document = d.id, !.step = "describe"]
  <1>1. d.id \in 0 .. MaxUploads
    BY <1>0 DEF TypeOK, Documents
  <1>2. /\ j \in JobType /\ j.step = "describe" /\ j.document = d.id
        /\ j.content = job[w].content /\ j.embedding_model = job[w].embedding_model
    BY <1>0, <1>1 DEF JobType, Steps
  <1> HIDE DEF j
  <1>3. JobOK(j)
    BY <1>0, <1>2 DEF JobOK, IdsUnique, EmbeddedInOrder, RacesShareTheModel, ReferenceMatches,
                      Embedded, Absent
  <1>4. next_id' \in next_id .. MaxUploads /\ j.document <= next_id'
    BY <1>0, <1>2 DEF TypeOK, IdsUnique
  <1>5. IdIsFree(w, j)
    BY <1>0, <1>2 DEF IdsUnique, IdIsFree, Owning
  <1> QED BY <1>0, <1>2, <1>3, <1>4, <1>5, JobStepKeeps DEF j, TypeOK

-----------------------------------------------------------------------------
(* The steps of an upload. *)

\* An upload starts with an id nobody has.
LEMMA StartKeeps ==
  ASSUME Inv, NEW w \in Workers, NEW c \in Contents, StartUpload(w, c)
  PROVE  Inv'
  <1>0. TypeOK /\ IdsUnique /\ job \in [Workers -> JobType]
    BY DEF Inv
  <1> DEFINE j == [NoJob(c, model) EXCEPT !.step = "lookup", !.document = next_id + 1]
  <1>1. next_id \in Nat /\ next_id + 1 \in 0 .. MaxUploads /\ next_id < MaxUploads
    BY <1>0 DEF TypeOK, StartUpload
  <1>2. /\ NoJob(c, model) \in JobType /\ NoJob(c, model).embedding_model = model
        /\ NoJob(c, model).embeddings = << >>
    BY <1>0, NoJobOK DEF JobOK, TypeOK, NoJob
  <1>3. /\ j \in JobType /\ j.step = "lookup" /\ j.document = next_id + 1
        /\ j.embedding_model = model /\ j.embeddings = << >>
    BY <1>1, <1>2 DEF JobType, Steps
  <1> HIDE DEF j
  <1>4. JobOK(j)
    BY <1>3 DEF JobOK, EmbeddedInOrder, RacesShareTheModel, ReferenceMatches, Embedded,
                Absent, Referring
  <1>5. /\ \A d \in documents : d.id \in Nat /\ d.id # j.document
        /\ \A v \in Workers : job[v].document \in Nat /\ job[v].document # j.document
    BY <1>0, <1>1, <1>3 DEF TypeOK, Documents, JobType, IdsUnique
  <1>6. next_id' \in next_id .. MaxUploads /\ j.document <= next_id' /\ j.document # 0
    BY <1>1, <1>3 DEF StartUpload
  <1>7. IdIsFree(w, j)
    BY <1>5, <1>6 DEF IdIsFree
  <1> QED BY <1>0, <1>4, <1>6, <1>7, JobStepKeeps DEF StartUpload, TypeOK, j

\* The lookup answers with a document of the same model, or goes on if there is
\* none of the content.
LEMMA LookUpKeeps ==
  ASSUME Inv, NEW w \in Workers, LookUp(w)
  PROVE  Inv'
  <1>0. /\ TypeOK /\ job \in [Workers -> JobType] /\ JobOK(job[w])
        /\ job[w].step = "lookup" /\ job[w] \in JobType
    BY DEF Inv, LookUp, At
  <1>1. CASE \E d \in Stored(job[w].content) : SameModel(job[w], d) /\
               Update(w, [job[w] EXCEPT !.document = d.id, !.step = "describe"]) /\
               UNCHANGED inserting
    BY <1>0, <1>1, ReferKeeps DEF LookUp, Stored, SameModel, JobOK
  <1>2. CASE Fail(w)
    BY <1>0, <1>2, FailKeeps DEF LookUp
  <1>3. CASE /\ Stored(job[w].content) = {} /\ chunks_of[job[w].content] # << >>
             /\ Update(w, [job[w] EXCEPT !.step = "embed"]) /\ UNCHANGED inserting
    <2> DEFINE j == [job[w] EXCEPT !.step = "embed"]
    <2>1. /\ j \in JobType /\ j.step = "embed" /\ j.document = job[w].document
          /\ j.content = job[w].content /\ j.embedding_model = job[w].embedding_model
          /\ j.embeddings = job[w].embeddings
      BY <1>0 DEF JobType, Steps
    <2>2. job[w].embeddings = << >>
      BY <1>0 DEF JobOK, EmbeddedInOrder
    <2>3. job[w].content \in Contents /\ Len(chunks_of[job[w].content]) > 0
      BY <1>0, <1>3 DEF JobType
    <2> HIDE DEF j
    <2>4. Len(j.embeddings) = 0 /\ DOMAIN j.embeddings = {}
      BY <2>1, <2>2
    <2>5. EmbeddedInOrder(j)
      BY <2>1, <2>3, <2>4 DEF EmbeddedInOrder, Embedded
    <2>6. JobOK(j)
      BY <1>0, <1>3, <2>1, <2>5 DEF JobOK, RacesShareTheModel, ReferenceMatches, Stored,
                                    Referring
    <2>7. UNCHANGED <<model, documents, next_id, deletes>>
      BY DEF LookUp
    <2> QED BY <1>0, <1>3, <2>1, <2>6, <2>7, SameIdKeeps DEF Owning, TypeOK, j
  <1> QED BY <1>1, <1>2, <1>3 DEF LookUp

\* The vectors of a complete answer, in the order of the indexes, are those of
\* the next chunks.
LEMMA BatchInOrder ==
  ASSUME NEW j \in JobType, EmbeddedInOrder(j), j.step = "embed",
         NEW items, NEW n \in 1 .. batch_length(j), items \in [1 .. n -> 1 .. batch_length(j)],
         complete(j, items)
  PROVE  LET embeddings == j.embeddings \o parsed(j, items) IN
         /\ embeddings \in Seq(Vectors)
         /\ Len(embeddings) = Len(j.embeddings) + batch_length(j)
         /\ \A i \in DOMAIN embeddings :
              embeddings[i] = VectorOf(j.embedding_model, j.content, i)
  <1> DEFINE chunks == chunks_of[j.content]
             e == j.embeddings
             b == batch_length(j)
             p == parsed(j, items)
  <1>1. /\ j.content \in Contents /\ chunks \in Seq(Texts) /\ e \in Seq(Vectors)
        /\ Len(e) \in Nat /\ Len(chunks) \in Nat /\ Len(e) < Len(chunks)
        /\ j.embedding_model \in Models
        /\ \A i \in DOMAIN e : e[i] = VectorOf(j.embedding_model, j.content, i)
    BY DEF JobType, EmbeddedInOrder
  <1>2. b \in Nat /\ b <= Len(chunks) - Len(e)
    <2>1. remaining(j) \in Nat /\ remaining(j) = Len(chunks) - Len(e)
      BY <1>1 DEF remaining
    <2>2. batch_size \in Nat
      OBVIOUS
    <2> HIDE DEF chunks, e
    <2> QED BY <1>1, <2>1, <2>2 DEF batch_length
  <1>3. DOMAIN items = 1 .. b
    <2>1. n \in Nat /\ DOMAIN items = 1 .. n /\ Len(items) = b
      BY <1>2 DEF complete
    <2>2. Len(items) = n
      BY <2>1
    <2> QED BY <2>1, <2>2
  <1> HIDE DEF b
  <1>4. p = [i \in 1 .. b |-> vector(j, i)]
    BY <1>3 DEF parsed
  <1>5. ASSUME NEW i \in 1 .. b
        PROVE  /\ p[i] = VectorOf(j.embedding_model, j.content, Len(e) + i)
               /\ p[i] \in Vectors
    <2>1. p[i] = VectorOf(j.embedding_model, j.content, Len(e) + i)
      BY <1>4 DEF vector, VectorOf
    <2>2. Len(e) + i \in 1 .. Len(chunks)
      BY <1>1, <1>2
    <2>3. chunks[Len(e) + i] \in Texts
      BY <1>1, <2>2
    <2> QED BY <1>1, <2>1, <2>3 DEF VectorOf, Vectors
  <1>6. p \in Seq(Vectors) /\ Len(p) = b
    BY <1>2, <1>4, <1>5
  <1> HIDE DEF p, e, chunks
  <1>7. /\ e \o p \in Seq(Vectors) /\ Len(e \o p) = Len(e) + b
        /\ \A i \in 1 .. Len(e) + b :
             (e \o p)[i] = IF i <= Len(e) THEN e[i] ELSE p[i - Len(e)]
    <2>1. e \in Seq(Vectors) /\ p \in Seq(Vectors) /\ Len(p) = b
      BY <1>1, <1>6 DEF e
    <2> QED BY <2>1, ConcatProperties
  <1>8. ASSUME NEW i \in 1 .. Len(e) + b
        PROVE  (e \o p)[i] = VectorOf(j.embedding_model, j.content, i)
    <2>1. CASE i <= Len(e)
      BY <1>1, <1>2, <1>7, <2>1
    <2>2. CASE ~ (i <= Len(e))
      <3>1. i - Len(e) \in 1 .. b /\ Len(e) + (i - Len(e)) = i
        BY <1>1, <1>2, <2>2
      <3>2. (e \o p)[i] = p[i - Len(e)]
        BY <1>7, <2>2
      <3> QED BY <1>5, <3>1, <3>2
    <2> QED BY <2>1, <2>2
  <1>9. DOMAIN (e \o p) = 1 .. Len(e) + b
    BY <1>7
  <1> QED BY <1>7, <1>8, <1>9 DEF e, p, b

\* A batch adds the vectors of the next chunks; with the last, all are there.
LEMMA EmbedKeeps ==
  ASSUME Inv, NEW w \in Workers, At(w, "embed"), NEW items \in Items(job[w]),
         EmbedBatch(w, items)
  PROVE  Inv'
  <1>0. /\ TypeOK /\ JobOK(job[w]) /\ job[w].step = "embed" /\ job[w] \in JobType
    BY DEF Inv, At
  <1> DEFINE e == job[w].embeddings \o parsed(job[w], items)
             total == Len(chunks_of[job[w].content])
             step == IF Len(e) = total THEN "insert" ELSE "embed"
             j == [job[w] EXCEPT !.embeddings = e, !.attempt = 0, !.step = step]
  <1>1. CASE complete(job[w], items)
    <2>1. PICK n \in 1 .. batch_length(job[w]) : items \in [1 .. n -> 1 .. batch_length(job[w])]
      BY DEF Items
    <2>2. /\ e \in Seq(Vectors) /\ Len(e) = Len(job[w].embeddings) + batch_length(job[w])
          /\ \A i \in DOMAIN e : e[i] = VectorOf(job[w].embedding_model, job[w].content, i)
      BY <1>0, <1>1, <2>1, BatchInOrder DEF JobOK
    <2>3. Len(e) \in Nat /\ total \in Nat /\ Len(e) <= total
      <3>1. /\ Len(job[w].embeddings) \in Nat /\ total \in Nat
            /\ Len(job[w].embeddings) < total
        BY <1>0 DEF JobOK, JobType, EmbeddedInOrder
      <3>2. remaining(job[w]) \in Nat /\ remaining(job[w]) = total - Len(job[w].embeddings)
        BY <3>1 DEF remaining
      <3>3. batch_length(job[w]) \in Nat /\ batch_length(job[w]) <= remaining(job[w])
        <4>1. batch_size \in Nat
          OBVIOUS
        <4>2. remaining(job[w]) \in Nat
          BY <3>2
        <4> QED BY <4>1, <4>2 DEF batch_length
      <3> HIDE DEF e, total
      <3> QED BY <2>2, <3>1, <3>2, <3>3
    <2>4. 0 \in 0 .. max_attempts - 1
      OBVIOUS
    <2> HIDE DEF e
    <2>5. /\ j \in JobType /\ j.step = step /\ j.embeddings = e
          /\ j.document = job[w].document /\ j.content = job[w].content
          /\ j.embedding_model = job[w].embedding_model
      BY <1>0, <2>2, <2>4 DEF JobType, Steps
    <2>6. Update(w, j) /\ UNCHANGED inserting
      BY <1>1 DEF EmbedBatch, e
    <2> HIDE DEF j
    <2>7. JobOK(j)
      <3>1. EmbeddedInOrder(j)
        BY <2>2, <2>3, <2>5 DEF EmbeddedInOrder, Embedded
      <3>2. RacesShareTheModel(j) /\ ReferenceMatches(j)
        BY <1>0, <2>5 DEF JobOK, RacesShareTheModel, ReferenceMatches, Absent, Referring
      <3> QED BY <1>0, <2>5, <3>1, <3>2 DEF JobOK
    <2> QED BY <1>0, <2>5, <2>6, <2>7, SameIdKeeps DEF EmbedBatch, Owning, TypeOK
  <1>2. CASE ~ complete(job[w], items)
    BY <1>0, <1>2, FailKeeps DEF EmbedBatch
  <1> QED BY <1>1, <1>2

\* Another attempt of the same batch.
LEMMA RetryKeeps ==
  ASSUME Inv, NEW w \in Workers, EmbeddingFails(w)
  PROVE  Inv'
  <1>0. /\ TypeOK /\ JobOK(job[w]) /\ job[w].step = "embed" /\ job[w] \in JobType
    BY DEF Inv, At, EmbeddingFails
  <1> DEFINE j == [job[w] EXCEPT !.attempt = job[w].attempt + 1]
  <1>1. CASE job[w].attempt + 1 < max_attempts
    <2>1. job[w].attempt + 1 \in 0 .. max_attempts - 1
      BY <1>0, <1>1 DEF JobType
    <2>2. /\ j \in JobType /\ j.step = job[w].step /\ j.embeddings = job[w].embeddings
          /\ j.document = job[w].document /\ j.content = job[w].content
          /\ j.embedding_model = job[w].embedding_model
      BY <1>0, <2>1 DEF JobType
    <2>3. Update(w, j)
      BY <1>0, <1>1 DEF EmbeddingFails, JobType
    <2> HIDE DEF j
    <2>4. JobOK(j)
      BY <1>0, <2>2 DEF JobOK, EmbeddedInOrder, RacesShareTheModel, ReferenceMatches, Referring
    <2> QED BY <1>0, <1>1, <2>2, <2>3, <2>4, SameIdKeeps DEF EmbeddingFails, Owning, TypeOK
  <1>2. CASE ~ (job[w].attempt + 1 < max_attempts)
    BY <1>0, <1>2, FailKeeps DEF EmbeddingFails
  <1> QED BY <1>1, <1>2

\* A request moves from one step to another of the same kind.
LEMMA MoveKeeps ==
  ASSUME Inv, NEW w \in Workers, NEW step,
         \/ job[w].step = "insert" /\ step \in {"existing", "commit"}
         \/ job[w].step = "refresh" /\ step = "describe",
         Update(w, [job[w] EXCEPT !.step = step]),
         UNCHANGED <<model, documents, next_id, deletes>>,
         inserting' \in [Contents -> Workers \cup {Nobody}]
  PROVE  Inv'
  <1>0. /\ TypeOK /\ JobOK(job[w]) /\ job[w] \in JobType
    BY DEF Inv
  <1> DEFINE j == [job[w] EXCEPT !.step = step]
  <1>1. /\ j \in JobType /\ j.step = step /\ j.embeddings = job[w].embeddings
        /\ j.document = job[w].document /\ j.content = job[w].content
        /\ j.embedding_model = job[w].embedding_model
    BY <1>0 DEF JobType, Steps
  <1> HIDE DEF j
  <1>2. JobOK(j)
    BY <1>0, <1>1 DEF JobOK, EmbeddedInOrder, RacesShareTheModel, ReferenceMatches, Referring,
                      Embedded, Absent
  <1> QED BY <1>0, <1>1, <1>2, SameIdKeeps DEF Owning, TypeOK, j

\* The insert waits for nobody, or finds that another was first.
LEMMA InsertKeeps ==
  ASSUME Inv, NEW w \in Workers, Insert(w)
  PROVE  Inv'
  <1>0. /\ TypeOK /\ job[w] \in JobType /\ job[w].step = "insert"
    BY DEF Inv, Insert, At
  <1>1. inserting' \in [Contents -> Workers \cup {Nobody}]
    BY <1>0 DEF Insert, TypeOK, JobType
  <1> QED BY <1>0, <1>1, MoveKeeps DEF Insert

\* After a violation the other's document is of this model: both requests run in
\* the process that has it.
LEMMA ExistingKeeps ==
  ASSUME Inv, NEW w \in Workers, FindExisting(w)
  PROVE  Inv'
  <1>0. JobOK(job[w]) /\ job[w].step = "existing"
    BY DEF Inv, FindExisting, At
  <1>1. CASE Stored(job[w].content) = {}
    BY <1>0, <1>1, FailKeeps DEF FindExisting
  <1>2. CASE Stored(job[w].content) # {}
    <2>1. PICK d \in Stored(job[w].content) :
            Update(w, [job[w] EXCEPT !.document = d.id, !.step = "describe"])
      BY <1>2 DEF FindExisting
    <2>2. d \in documents /\ d.content = job[w].content /\ d.embedding_model = model
      BY <1>0, <2>1 DEF Stored, JobOK, RacesShareTheModel, Absent
    <2> QED BY <1>2, <2>1, <2>2, ReferKeeps DEF FindExisting
  <1> QED BY <1>1, <1>2

\* The refresh finds the document that was created, or fails.
LEMMA RefreshKeeps ==
  ASSUME Inv, NEW w \in Workers, Refresh(w)
  PROVE  Inv'
  <1>0. job[w].step = "refresh" /\ TypeOK
    BY DEF Refresh, At, Inv
  <1> QED BY <1>0, MoveKeeps, FailKeeps DEF Refresh, TypeOK

\* The answer counts the chunks of the document, which its id determines.
LEMMA DescribeKeeps ==
  ASSUME Inv, NEW w \in Workers, Describe(w)
  PROVE  Inv'
  <1>0. /\ TypeOK /\ IdsUnique /\ JobOK(job[w]) /\ job[w] \in JobType /\ job[w].step = "describe"
    BY DEF Inv, Describe, At
  <1> DEFINE described == {d \in documents : d.id = job[w].document}
             count == IF described = {} THEN 0 ELSE Len((CHOOSE d \in described : TRUE).embeddings)
             j == [NoJob(job[w].content, job[w].embedding_model) EXCEPT
                     !.document = job[w].document, !.created = job[w].created,
                     !.chunk_count = count, !.step = "done"]
  <1>1. count \in Nat /\ \A d \in described : Len(d.embeddings) = count
    <2>1. \A d, e \in described : d = e
      BY <1>0 DEF IdsUnique
    <2>2. \A d \in described : Len(d.embeddings) \in Nat
      BY <1>0 DEF TypeOK, Documents
    <2>3. CASE described = {}
      BY <2>3
    <2>4. CASE described # {}
      <3>1. (CHOOSE d \in described : TRUE) \in described
        BY <2>4
      <3> HIDE DEF described
      <3> QED BY <2>1, <2>2, <2>4, <3>1
    <2> QED BY <2>3, <2>4
  <1> HIDE DEF count
  <1>2. /\ j \in JobType /\ j.step = "done" /\ j.chunk_count = count
        /\ j.document = job[w].document /\ j.content = job[w].content
        /\ j.embedding_model = job[w].embedding_model
    <2>1. NoJob(job[w].content, job[w].embedding_model) \in JobType
      BY <1>0, NoJobOK DEF JobOK, JobType, TypeOK
    <2>2. /\ NoJob(job[w].content, job[w].embedding_model).content = job[w].content
          /\ NoJob(job[w].content, job[w].embedding_model).embedding_model
               = job[w].embedding_model
      BY DEF NoJob
    <2> QED BY <1>0, <1>1, <2>1, <2>2 DEF JobType, Steps
  <1>3. Update(w, j)
    BY DEF Describe, count
  <1> HIDE DEF j
  <1>4. JobOK(j)
    BY <1>0, <1>1, <1>2 DEF JobOK, EmbeddedInOrder, RacesShareTheModel, ReferenceMatches,
                            Embedded, Absent, Referring
  <1> QED BY <1>0, <1>2, <1>3, <1>4, SameIdKeeps DEF Describe, Owning, TypeOK

\* The commit stores a vector for each chunk, under the id only this request has.
LEMMA CommitKeeps ==
  ASSUME Inv, NEW w \in Workers, Commit(w)
  PROVE  Inv'
  <1>0. /\ TypeOK /\ IdsUnique /\ job \in [Workers -> JobType]
        /\ \A v \in Workers : JobOK(job[v])
        /\ JobOK(job[w]) /\ job[w] \in JobType /\ job[w].step = "commit"
        /\ UNCHANGED <<model, next_id, deletes>>
    BY DEF Inv, Commit, At
  <1> DEFINE j == [job[w] EXCEPT !.created = TRUE, !.step = "refresh"]
             new == new_document(job[w])
  <1>1. /\ j \in JobType /\ j.step = "refresh" /\ j.embeddings = job[w].embeddings
        /\ j.document = job[w].document /\ j.content = job[w].content
        /\ j.embedding_model = job[w].embedding_model
    BY <1>0 DEF JobType, Steps
  <1>2. /\ new.id = job[w].document /\ new.content = job[w].content
        /\ new.embedding_model = model /\ new.embeddings = job[w].embeddings
        /\ new \in Documents
    <2>1. /\ Len(job[w].embeddings) <= Len(chunks_of[job[w].content])
          /\ ~ (Len(job[w].embeddings) < Len(chunks_of[job[w].content]))
      BY <1>0 DEF JobOK, EmbeddedInOrder, Embedded
    <2>2. /\ Len(job[w].embeddings) \in Nat /\ Len(chunks_of[job[w].content]) \in Nat
      BY <1>0 DEF JobType
    <2> QED BY <1>0, <2>1, <2>2 DEF new_document, Documents, JobType, JobOK
  <1>3. /\ job'[w] = j /\ \A v \in Workers : v # w => job'[v] = job[v]
        /\ job' \in [Workers -> JobType]
    BY <1>0, <1>1 DEF Commit, Update
  <1>4. documents' = documents \cup {new}
    BY DEF Commit
  <1> HIDE DEF j, new
  <1>5. TypeOK'
    <2>1. inserting' \in [Contents -> Workers \cup {Nobody}]
      BY <1>0 DEF Commit, Rollback, TypeOK
    <2> QED BY <1>0, <1>2, <1>3, <1>4, <2>1 DEF TypeOK, JobType
  <1>6. IdsUnique'
    <2>1. /\ \A d \in documents : d.id # job[w].document
          /\ \A v \in Workers : v # w => job[v].document # job[w].document
          /\ job[w].document <= next_id
      BY <1>0 DEF IdsUnique, Owning
    <2>2. /\ \A d \in documents' : d.id <= next_id'
          /\ \A d, e \in documents' : d.id = e.id => d = e
      BY <1>0, <1>2, <1>4, <2>1 DEF IdsUnique
    <2>3. \A v \in Workers : job'[v].document <= next_id'
      BY <1>0, <1>1, <1>3 DEF IdsUnique
    <2>4. ASSUME NEW v \in Workers, job'[v].step \in Owning
          PROVE  /\ job'[v].document # 0
                 /\ \A d \in documents' : d.id # job'[v].document
                 /\ \A u \in Workers : u # v => job'[u].document # job'[v].document
      <3>1. v # w /\ job'[v] = job[v]
        BY <1>1, <1>3, <2>4 DEF Owning
      <3>2. /\ job[v].document # 0
            /\ \A d \in documents : d.id # job[v].document
            /\ \A u \in Workers : u # v => job[u].document # job[v].document
        BY <1>0, <2>4, <3>1 DEF IdsUnique
      <3>3. job[w].document # job[v].document
        BY <3>1, <3>2
      <3>4. \A d \in documents' : d.id # job[v].document
        BY <1>2, <1>4, <3>2, <3>3
      <3>5. ASSUME NEW u \in Workers, u # v PROVE job'[u].document # job[v].document
        BY <1>1, <1>3, <3>2, <3>3, <3>5
      <3> QED BY <3>1, <3>2, <3>4, <3>5
    <2> QED BY <2>2, <2>3, <2>4 DEF IdsUnique
  <1>7. ASSUME NEW v \in Workers PROVE JobOK(job[v])'
    <2>1. CASE v = w
      <3>1. \A d \in documents : d.id # job[w].document
        BY <1>0 DEF IdsUnique, Owning
      <3> QED BY <1>0, <1>1, <1>2, <1>3, <1>4, <2>1, <3>1
              DEF JobOK, EmbeddedInOrder, RacesShareTheModel, ReferenceMatches, Embedded, Absent
    <2>2. CASE v # w
      <3>1. job'[v] = job[v] /\ job[v].document # job[w].document /\ model' = model
        BY <1>0, <1>3, <2>2 DEF IdsUnique, Owning
      <3>2. RacesShareTheModel(job[v])' /\ ReferenceMatches(job[v])'
        BY <1>0, <1>2, <1>4, <3>1 DEF JobOK, RacesShareTheModel, ReferenceMatches
      <3> QED BY <1>0, <3>1, <3>2 DEF JobOK, EmbeddedInOrder
    <2> QED BY <2>1, <2>2
  <1> QED BY <1>3, <1>5, <1>6, <1>7 DEF Inv

\* A deletion takes a document away and its id is not given again.
LEMMA DeleteKeeps ==
  ASSUME Inv, NEW d \in documents, Delete(d)
  PROVE  Inv'
  <1>0. /\ TypeOK /\ IdsUnique /\ job \in [Workers -> JobType]
        /\ \A v \in Workers : JobOK(job[v])
        /\ UNCHANGED <<model, next_id, inserting, job>> /\ documents' \subseteq documents
        /\ deletes' \in 0 .. MaxDeletes
    BY DEF Inv, Delete, TypeOK
  <1>1. TypeOK'
    BY <1>0 DEF TypeOK
  <1>2. IdsUnique'
    BY <1>0 DEF IdsUnique
  <1>3. \A v \in Workers : JobOK(job[v])'
    BY <1>0 DEF JobOK, EmbeddedInOrder, RacesShareTheModel, ReferenceMatches
  <1> QED BY <1>0, <1>1, <1>2, <1>3 DEF Inv

\* No request survives a restart, so all work with the new model.
LEMMA RestartKeeps ==
  ASSUME Inv, NEW m \in Models, Restart(m)
  PROVE  Inv'
  <1>0. /\ TypeOK /\ IdsUnique /\ job \in [Workers -> JobType] /\ model' = m
        /\ UNCHANGED <<documents, next_id, deletes>>
        /\ \A v \in Workers : job[v].content \in Contents
    BY DEF Inv, Restart, TypeOK
  <1>1. \A v \in Workers : job'[v] = NoJob(job[v].content, m)
    BY DEF Restart
  <1>2. \A c \in Contents : /\ NoJob(c, m) \in JobType /\ NoJob(c, m).embedding_model = m
                            /\ NoJob(c, m).step = "idle" /\ NoJob(c, m).document = 0
    <2>1. << >> \in Seq(Vectors)
      OBVIOUS
    <2> QED BY <2>1 DEF NoJob, JobType, Steps
  <1>3. job' \in [Workers -> JobType]
    BY <1>0, <1>2 DEF Restart
  <1>4. TypeOK'
    <2>1. inserting' \in [Contents -> Workers \cup {Nobody}]
      BY DEF Restart
    <2> QED BY <1>0, <1>3, <2>1 DEF TypeOK, JobType
  <1>5. next_id \in Nat
    BY <1>0 DEF TypeOK
  <1>6. IdsUnique'
    BY <1>0, <1>1, <1>2, <1>5 DEF IdsUnique, Owning
  <1>7. \A v \in Workers : JobOK(job[v])'
    BY <1>0, <1>1, <1>2 DEF JobOK, EmbeddedInOrder, RacesShareTheModel, ReferenceMatches,
                            Embedded, Absent, Referring
  <1> QED BY <1>3, <1>4, <1>6, <1>7 DEF Inv

-----------------------------------------------------------------------------
(* The theorems. *)

\* Nothing is stored or under way in the beginning.
LEMMA InitInv == Init => Inv
  <1> SUFFICES ASSUME Init PROVE Inv
    OBVIOUS
  <1> DEFINE c == CHOOSE x \in Contents : TRUE
  <1>1. c \in Contents
    OBVIOUS
  <1> HIDE DEF c
  <1>2. \A w \in Workers : job[w] = NoJob(c, model)
    BY DEF Init, c
  <1>3. /\ JobOK(NoJob(c, model)) /\ NoJob(c, model).document = 0
        /\ NoJob(c, model).step = "idle"
    BY <1>1, NoJobOK DEF Init
  <1>4. job \in [Workers -> JobType]
    BY <1>3 DEF Init, JobOK, c
  <1>5. TypeOK
    <2>1. /\ model \in Models /\ documents = {} /\ next_id = 0 /\ deletes = 0
          /\ inserting \in [Contents -> Workers \cup {Nobody}]
      BY DEF Init
    <2>2. documents \subseteq Documents
      BY <2>1
    <2> QED BY <1>4, <2>1, <2>2 DEF TypeOK, JobType
  <1>6. IdsUnique
    BY <1>2, <1>3 DEF Init, IdsUnique, Owning
  <1> QED BY <1>2, <1>3, <1>4, <1>5, <1>6 DEF Inv

\* Every step keeps the invariant.
LEMMA InvKept ==
  Inv /\ [Next]_vars => Inv'
  <1> SUFFICES ASSUME Inv, [Next]_vars PROVE Inv'
    OBVIOUS
  <1>1. ASSUME NEW w \in Workers, Proceed(w) PROVE Inv'
    BY <1>1, LookUpKeeps, InsertKeeps, CommitKeeps, ExistingKeeps, RefreshKeeps,
       DescribeKeeps, EmbedKeeps DEF Proceed
  <1>2. ASSUME NEW w \in Workers, EmbeddingFails(w) PROVE Inv'
    BY <1>2, RetryKeeps
  <1>3. ASSUME NEW w \in Workers, DatabaseFails(w) PROVE Inv'
    BY <1>3, FailKeeps DEF DatabaseFails
  <1>4. ASSUME NEW w \in Workers, NEW c \in Contents, StartUpload(w, c) PROVE Inv'
    BY <1>4, StartKeeps
  <1>5. ASSUME NEW d \in documents, Delete(d) PROVE Inv'
    BY <1>5, DeleteKeeps
  <1>6. ASSUME NEW m \in Models, Restart(m) PROVE Inv'
    BY <1>6, RestartKeeps
  <1>7. CASE UNCHANGED vars
    BY <1>7 DEF vars, Inv, TypeOK, IdsUnique, JobOK, JobType, EmbeddedInOrder,
                RacesShareTheModel, ReferenceMatches
  <1> QED BY <1>1, <1>2, <1>3, <1>4, <1>5, <1>6, <1>7 DEF Next

\* Every reachable state is well typed: a stored document has as many vectors as
\* chunks, and no batch is tried more often than allowed (embeddings.py:127).
THEOREM TypeCorrect == Spec => []TypeOK
  <1>1. Inv => TypeOK
    BY DEF Inv
  <1> QED BY <1>1, InitInv, InvKept, PTL DEF Spec

\* An upload that is answered is answered with a document of its content, model
\* and chunk count: the model is compared at the lookup, and requests that race
\* share it (rag_documents.py:128-150).
THEOREM AnswersMatch == Spec => []AnswersMatchTheModel
  <1>1. Inv => AnswersMatchTheModel
    BY DEF Inv, JobOK, ReferenceMatches, AnswersMatchTheModel, At, Referring
  <1> QED BY <1>1, InitInv, InvKept, PTL DEF Spec

\* A stored chunk has the vector of its own text: each batch is put in the order
\* of its indexes behind the batches before (embeddings.py:180).
THEOREM VectorsMatch == Spec => []ChunksHaveTheirVectors
  <1>1. Init => ChunksHaveTheirVectors
    BY DEF Init, ChunksHaveTheirVectors
  <1>2. Inv /\ ChunksHaveTheirVectors /\ [Next]_vars => ChunksHaveTheirVectors'
    <2> SUFFICES ASSUME Inv, ChunksHaveTheirVectors, [Next]_vars
                 PROVE  ChunksHaveTheirVectors'
      OBVIOUS
    <2>1. ASSUME NEW w \in Workers, Commit(w) PROVE ChunksHaveTheirVectors'
      <3>1. JobOK(job[w]) /\ job[w].step = "commit"
        BY <2>1 DEF Inv, Commit, At
      <3>2. \A i \in DOMAIN job[w].embeddings :
              job[w].embeddings[i] = VectorOf(job[w].embedding_model, job[w].content, i)
        BY <3>1 DEF JobOK, EmbeddedInOrder, Embedded
      <3>3. documents' = documents \cup {new_document(job[w])}
        BY <2>1 DEF Commit
      <3>4. ASSUME NEW d, d = new_document(job[w]), NEW i \in DOMAIN d.embeddings
            PROVE  d.embeddings[i] = VectorOf(d.embedding_model, d.content, i)
        <4>1. /\ d.embeddings = job[w].embeddings /\ d.content = job[w].content
              /\ d.embedding_model = job[w].embedding_model
          BY <3>4 DEF new_document
        <4> QED BY <3>2, <3>4, <4>1
      <3>5. ASSUME NEW d \in documents, NEW i \in DOMAIN d.embeddings
            PROVE  d.embeddings[i] = VectorOf(d.embedding_model, d.content, i)
        BY DEF ChunksHaveTheirVectors, VectorOf
      <3> QED BY <3>3, <3>4, <3>5 DEF ChunksHaveTheirVectors, VectorOf
    <2>2. ASSUME documents' \subseteq documents PROVE ChunksHaveTheirVectors'
      BY <2>2 DEF ChunksHaveTheirVectors
    <2> QED BY <2>1, <2>2
        DEF Next, Proceed, LookUp, Insert, FindExisting, Refresh, Describe, EmbedBatch,
            EmbeddingFails, DatabaseFails, StartUpload, Delete, Restart, vars
  <1> QED BY <1>1, <1>2, InitInv, InvKept, PTL DEF Spec
=============================================================================
