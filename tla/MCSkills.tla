------------------------------ MODULE MCSkills ------------------------------
(* A small instance of Skills: seven kinds of task, orders of none to two    *)
(* tasks in four states, and a document that is rebuilt once: the new        *)
(* version rewrites its middle chunk and keeps the others; a second document *)
(* is historical.                                                            *)
EXTENDS Skills

Task(n, status, steps, issues, reviews) ==
    [status |-> status, steps |-> steps,
     issues |-> [k \in DOMAIN issues |-> [id |-> 10 * n + k, type |-> issues[k][1], status |-> issues[k][2]]],
     reviews |-> [k \in DOMAIN reviews |-> [issue |-> 10 * n + 1, status |-> reviews[k]]]]

Kind(n, k) ==
    CASE k = "clean"    -> Task(n, "COMPLETED", <<"COMPLETED">>, <<>>, <<>>)
      [] k = "running"  -> Task(n, "RUNNING", <<"COMPLETED", "RUNNING">>, <<>>, <<>>)
      [] k = "failed"   -> Task(n, "COMPLETED", <<"FAILED">>, <<>>, <<>>)
      [] k = "open"     -> Task(n, "COMPLETED", <<"COMPLETED">>, <<<<"COORDINATE_SYSTEM", "OPEN">>>>, <<"REJECTED">>)
      [] k = "resolved" -> Task(n, "COMPLETED", <<"COMPLETED">>, <<<<"OTHER", "RESOLVED">>>>, <<"APPROVED">>)
      [] k = "unreviewed" -> Task(n, "COMPLETED", <<"COMPLETED">>, <<<<"OTHER", "RESOLVED">>>>, <<>>)
      [] k = "silent"   -> Task(n, "COMPLETED", <<>>, <<>>, <<>>)

MCKinds == {<<>>, <<"clean">>, <<"running">>, <<"failed">>, <<"open">>, <<"resolved">>, <<"unreviewed">>,
            <<"silent">>, <<"resolved", "open">>, <<"resolved", "unreviewed">>}

MCStores ==
    {st \in {[order |-> o, tasks |-> [n \in DOMAIN k |-> Kind(n, k[n])], delivery |-> d] :
                o \in {"PRODUCING", "QUALITY_CHECKING", "REVIEWING", "READY_FOR_DELIVERY"},
                k \in MCKinds, d \in {<<"NOT_READY">>, <<"READY">>}} : Consistent(st)}

Chunk(id, document, v, index, active) ==
    [id |-> id, document |-> document, version |-> v, index |-> index, section |-> "s",
     active |-> active, embedded |-> TRUE]

Old == [n \in 1..3 |-> Chunk(n, 1, 1, n, TRUE)]
Rewritten == Chunk(4, 1, 2, 2, TRUE)
New == {Chunk(1, 1, 2, 1, TRUE), Rewritten, Chunk(3, 1, 2, 3, TRUE)}
Historical == Chunk(9, 2, 1, 1, FALSE)

MCCatalogs == <<{Old[1], Old[2], Old[3], Historical}, New \cup {Historical}>>

MCPages == {[order |-> TRUE, task |-> None, issue |-> None], [order |-> FALSE, task |-> None, issue |-> None],
            [order |-> TRUE, task |-> 1, issue |-> 11], [order |-> TRUE, task |-> 2, issue |-> None]}

AllHits == {h \in UNION {[1..n -> UNION {MCCatalogs[c] : c \in 1..2}] : n \in 0..2} :
              \A m, n \in DOMAIN h : m # n => h[m].id # h[n].id}

Plain == [order |-> TRUE, task |-> None, issue |-> None]
Request(flows, stores, pages, kbs) ==
    {[flow |-> f, store |-> st, page |-> p, kb |-> k] : f \in flows, st \in stores, p \in pages, k \in kbs}

\* The store matters to the diagnoses, the page to the fixed one, the knowledge
\* base to the answers.
MCRequests ==
    Request({"dynamic"}, MCStores, {Plain}, {2})
    \cup Request({"fixed"}, MCStores, MCPages, {0})
    \cup Request({"status", "dynamic", "specification", "review"},
                 {st \in MCStores : st.order = "REVIEWING" /\ st.delivery = <<"NOT_READY">>
                                    /\ Len(st.tasks) = 1 /\ st.tasks[1].issues # <<>>},
                 {p \in MCPages : p.task = None}, {0})
    \cup Request({"specification", "review"},
                 {[order |-> "REVIEWING", tasks |-> <<Kind(1, "open")>>, delivery |-> <<"NOT_READY">>]},
                 {Plain}, {1, 2})

MCHits == [status |-> {}, fixed |-> {}, specification |-> AllHits,
           review |-> {<<>>, <<Old[1]>>, <<Old[1], Old[3]>>, <<Rewritten>>},
           dynamic |-> {<<>>, <<Rewritten>>}]
=============================================================================
