--------------------------- MODULE DocumentIndex ---------------------------
(***************************************************************************)
(* POST /documents (backend/app/services/rag_documents.py) with the        *)
(* embedding provider of rag/embeddings.py: concurrent uploads of the same *)
(* and other texts, deletions, restarts with another embedding model.      *)
(*                                                                         *)
(* PostgreSQL runs at READ COMMITTED.  The unique index on content_sha256  *)
(* makes a second insert of the same content wait for the first one's end. *)
(***************************************************************************)
EXTENDS Naturals, Sequences

CONSTANTS
  Workers,     \* the threads that serve requests
  Nobody,      \* "no request inserts this content"
  Contents,    \* normalized texts, equal if and only if their hashes are
  Models,      \* embedding models
  chunks_of,   \* chunks_of[c]: the texts split_text cuts content c into
  batch_size, max_attempts,
  MaxUploads,  \* bound: uploads started in a behaviour
  MaxDeletes   \* bound: deletions in a behaviour

Texts == UNION {{chunks_of[c][i] : i \in DOMAIN chunks_of[c]} : c \in Contents}
Vectors == [model : Models, text : Texts]

ASSUME DocumentAssumption ==
  /\ Nobody \notin Workers
  /\ batch_size \in Nat \ {0} /\ max_attempts \in Nat \ {0}
  /\ MaxUploads \in Nat /\ MaxDeletes \in Nat
  /\ Contents # {}
  /\ DOMAIN chunks_of = Contents
  /\ \A c \in Contents : chunks_of[c] \in Seq(Texts)

VARIABLES
  model,      \* the embedding model of the settings of the process
  documents,  \* table knowledge_documents with its document_chunks
  next_id,    \* stands for the fresh uuid of a document
  inserting,  \* the request with an uncommitted insert of a content
  job,        \* job[w]: the upload that worker w serves
  deletes     \* counter for the bound

vars == <<model, documents, next_id, inserting, job, deletes>>

Steps == {"idle", "lookup", "embed", "insert", "commit", "existing", "refresh",
          "describe", "done"}

Documents == {d \in [id : 0 .. MaxUploads, content : Contents, embedding_model : Models,
                     embeddings : Seq(Vectors)] :
                Len(d.embeddings) = Len(chunks_of[d.content])}

\* A request that ends in an error leaves no trace; one that is answered keeps
\* what the answer says: the document, its creation and the chunk count.
NoJob(c, m) == [step |-> "idle", content |-> c, embedding_model |-> m,
                embeddings |-> << >>, attempt |-> 0, document |-> 0,
                created |-> FALSE, chunk_count |-> 0]

Init ==
  /\ model \in Models
  /\ documents = {}
  /\ next_id = 0
  /\ inserting = [c \in Contents |-> Nobody]
  /\ job = [w \in Workers |-> NoJob(CHOOSE c \in Contents : TRUE, model)]
  /\ deletes = 0

-----------------------------------------------------------------------------
At(w, step) == job[w].step = step
Update(w, j) == job' = [job EXCEPT ![w] = j]
Stored(c) == {d \in documents : d.content = c}

\* The session closes: an insert that is not committed is rolled back.
Rollback(w) ==
  inserting' = [c \in Contents |-> IF inserting[c] = w THEN Nobody ELSE inserting[c]]

Fail(w) ==
  /\ Update(w, NoJob(job[w].content, job[w].embedding_model))
  /\ Rollback(w)

\* upload_document accepts a readable text; the one server process has one model.
StartUpload(w, c) ==
  /\ job[w].step \in {"idle", "done"}
  /\ next_id < MaxUploads
  /\ next_id' = next_id + 1
  /\ Update(w, [NoJob(c, model) EXCEPT !.step = "lookup", !.document = next_id + 1])
  /\ UNCHANGED <<model, documents, inserting, deletes>>

\* Defect used to test AnswersMatchTheModel: any stored document will do.
AnyDocument(j, d) == TRUE

\* A stored document is an answer only if it was indexed with the same model.
SameModel(j, d) == d.embedding_model = j.embedding_model

\* The content hash is looked up: the document exists, conflicts, or is new.
LookUp(w) ==
  LET j == job[w] IN
  /\ At(w, "lookup")
  /\ \/ \E d \in Stored(j.content) :
          /\ SameModel(j, d)
          /\ Update(w, [j EXCEPT !.document = d.id, !.step = "describe"])
          /\ UNCHANGED inserting
     \/ /\ \E d \in Stored(j.content) : ~SameModel(j, d)
        /\ Fail(w)
     \/ /\ Stored(j.content) = {}
        /\ IF chunks_of[j.content] = << >>
           THEN Fail(w)
           ELSE /\ Update(w, [j EXCEPT !.step = "embed"])
                /\ UNCHANGED inserting
  /\ UNCHANGED <<model, documents, next_id, deletes>>

-----------------------------------------------------------------------------
(* Embedding, one provider call per batch of chunks, outside a transaction. *)

remaining(j) == Len(chunks_of[j.content]) - Len(j.embeddings)
batch_length(j) == IF remaining(j) < batch_size THEN remaining(j) ELSE batch_size

\* The item with index i carries the vector of the i-th text of the batch.
vector(j, i) ==
  [model |-> j.embedding_model, text |-> chunks_of[j.content][Len(j.embeddings) + i]]

\* Defect used to test ChunksHaveTheirVectors: items are taken as they come.
AsReceived(j, items) == [k \in DOMAIN items |-> vector(j, items[k])]

\* The items are sorted by their index.
parsed(j, items) == [i \in DOMAIN items |-> vector(j, i)]

\* The items' indexes are those of the batch, each once, in any order.
complete(j, items) ==
  /\ Len(items) = batch_length(j)
  /\ {items[k] : k \in DOMAIN items} = 1 .. batch_length(j)

\* The provider answers with some items; incomplete ones are an error.
EmbedBatch(w, items) ==
  LET j == job[w]
      embeddings == j.embeddings \o parsed(j, items)
      finished == Len(embeddings) = Len(chunks_of[j.content])
  IN /\ At(w, "embed")
     /\ IF complete(j, items)
        THEN /\ Update(w, [j EXCEPT !.embeddings = embeddings, !.attempt = 0,
                             !.step = IF finished THEN "insert" ELSE "embed"])
             /\ UNCHANGED inserting
        ELSE Fail(w)
     /\ UNCHANGED <<model, documents, next_id, deletes>>

\* Defect used to test TypeOK: one attempt too many.
OneMoreAttempt(w) ==
  LET j == job[w] IN
  /\ At(w, "embed")
  /\ IF j.attempt < max_attempts
     THEN /\ Update(w, [j EXCEPT !.attempt = @ + 1])
          /\ UNCHANGED inserting
     ELSE Fail(w)
  /\ UNCHANGED <<model, documents, next_id, deletes>>

\* The call fails in a way worth trying again, until the last attempt.
EmbeddingFails(w) ==
  LET j == job[w] IN
  /\ At(w, "embed")
  /\ IF j.attempt + 1 < max_attempts
     THEN /\ Update(w, [j EXCEPT !.attempt = @ + 1])
          /\ UNCHANGED inserting
     ELSE Fail(w)
  /\ UNCHANGED <<model, documents, next_id, deletes>>

-----------------------------------------------------------------------------
(* Storing the document with its chunks, and the answer. *)

\* The flush inserts document and chunks. It waits for another's insert of the
\* content; if that was committed, the unique constraint is violated.
Insert(w) ==
  LET j == job[w] IN
  /\ At(w, "insert")
  /\ inserting[j.content] = Nobody
  /\ IF Stored(j.content) # {}
     THEN /\ Update(w, [j EXCEPT !.step = "existing"])
          /\ UNCHANGED inserting
     ELSE /\ inserting' = [inserting EXCEPT ![j.content] = w]
          /\ Update(w, [j EXCEPT !.step = "commit"])
  /\ UNCHANGED <<model, documents, next_id, deletes>>

new_document(j) == [id |-> j.document, content |-> j.content,
                    embedding_model |-> j.embedding_model,
                    embeddings |-> j.embeddings]

Commit(w) ==
  LET j == job[w] IN
  /\ At(w, "commit")
  /\ documents' = documents \cup {new_document(j)}
  /\ Update(w, [j EXCEPT !.created = TRUE, !.step = "refresh"])
  /\ Rollback(w)
  /\ UNCHANGED <<model, next_id, deletes>>

\* Defect used to test UploadsFinish: the request tries to insert again.
InsertAgain(w) ==
  /\ At(w, "existing")
  /\ Update(w, [job[w] EXCEPT !.step = "insert"])
  /\ UNCHANGED <<model, documents, next_id, inserting, deletes>>

\* After the violation the document that was there first is the answer,
\* whatever its model; if it is gone by now, the violation is an error.
FindExisting(w) ==
  LET j == job[w] IN
  /\ At(w, "existing")
  /\ IF Stored(j.content) = {}
     THEN Fail(w)
     ELSE /\ \E d \in Stored(j.content) :
               Update(w, [j EXCEPT !.document = d.id, !.step = "describe"])
          /\ UNCHANGED inserting
  /\ UNCHANGED <<model, documents, next_id, deletes>>

\* session.refresh of a created document, an error if it is deleted already.
Refresh(w) ==
  /\ At(w, "refresh")
  /\ IF \E d \in documents : d.id = job[w].document
     THEN /\ Update(w, [job[w] EXCEPT !.step = "describe"])
          /\ UNCHANGED inserting
     ELSE Fail(w)
  /\ UNCHANGED <<model, documents, next_id, deletes>>

\* knowledge_document_response counts the chunks it loads.
Describe(w) ==
  LET j == job[w]
      described == {d \in documents : d.id = j.document}
      count == IF described = {} THEN 0
               ELSE Len((CHOOSE d \in described : TRUE).embeddings)
  IN /\ At(w, "describe")
     /\ Update(w, [NoJob(j.content, j.embedding_model) EXCEPT
                     !.document = j.document, !.created = j.created,
                     !.chunk_count = count, !.step = "done"])
     /\ UNCHANGED <<model, documents, next_id, inserting, deletes>>

DatabaseFails(w) ==
  /\ job[w].step \in {"lookup", "insert", "commit", "existing", "refresh", "describe"}
  /\ Fail(w)
  /\ UNCHANGED <<model, documents, next_id, deletes>>

\* remove_document: the chunks go with the document.
Delete(d) ==
  /\ deletes < MaxDeletes
  /\ documents' = documents \ {d}
  /\ deletes' = deletes + 1
  /\ UNCHANGED <<model, next_id, inserting, job>>

\* The server restarts with the model of new settings.
Restart(m) ==
  /\ m # model
  /\ model' = m
  /\ job' = [w \in Workers |-> NoJob(job[w].content, m)]
  /\ inserting' = [c \in Contents |-> Nobody]
  /\ UNCHANGED <<documents, next_id, deletes>>

\* What a provider may send: some of the batch's indexes, some perhaps twice.
Items(j) == UNION {[1 .. n -> 1 .. batch_length(j)] : n \in 1 .. batch_length(j)}

Proceed(w) ==
  \/ LookUp(w) \/ Insert(w) \/ Commit(w) \/ FindExisting(w)
  \/ Refresh(w) \/ Describe(w)
  \/ At(w, "embed") /\ \E items \in Items(job[w]) : EmbedBatch(w, items)

Next ==
  \/ \E w \in Workers : Proceed(w) \/ EmbeddingFails(w) \/ DatabaseFails(w)
  \/ \E w \in Workers, c \in Contents : StartUpload(w, c)
  \/ \E d \in documents : Delete(d)
  \/ \E m \in Models : Restart(m)

Spec == Init /\ [][Next]_vars

\* A thread that can take its next step does; the provider answers or fails.
FairSpec == Spec /\ \A w \in Workers : WF_vars(Proceed(w) \/ EmbeddingFails(w))

-----------------------------------------------------------------------------
(* Properties *)

\* Every variable has its type; a stored document has a vector per chunk.
TypeOK ==
  /\ model \in Models
  /\ documents \subseteq Documents
  /\ next_id \in 0 .. MaxUploads
  /\ inserting \in [Contents -> Workers \cup {Nobody}]
  /\ \A w \in Workers :
       /\ job[w].step \in Steps
       /\ job[w].embedding_model \in Models /\ job[w].content \in Contents
       /\ job[w].embeddings \in Seq(Vectors)
       /\ job[w].attempt \in 0 .. max_attempts - 1
       /\ job[w].document \in 0 .. MaxUploads
  /\ deletes \in 0 .. MaxDeletes

\* Whatever order and batches the vectors arrive in, each stored chunk has the
\* vector of its own text by the document's model.
ChunksHaveTheirVectors ==
  \A d \in documents : \A i \in DOMAIN d.embeddings :
    d.embeddings[i] = [model |-> d.embedding_model, text |-> chunks_of[d.content][i]]

\* "409: identical content is already indexed with another embedding model": an
\* upload that succeeds answers with a document of the content, indexed whole
\* with the upload's model, as long as it is not deleted. This holds of racing
\* uploads too, which skip the comparison after a unique violation, because
\* requests of a process share its model and do not survive a restart.
AnswersMatchTheModel ==
  \A w \in Workers : At(w, "done") =>
    \A d \in documents : d.id = job[w].document =>
      /\ d.content = job[w].content
      /\ d.embedding_model = job[w].embedding_model
      /\ Len(d.embeddings) = job[w].chunk_count

\* Every upload ends, also one that waits for another's insert.
UploadsFinish ==
  \A w \in Workers :
    job[w].step \notin {"idle", "done"} ~> job[w].step \in {"idle", "done"}
=============================================================================
