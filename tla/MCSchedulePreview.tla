------------------------- MODULE MCSchedulePreview -------------------------
\* Small instances of SchedulePreview for TLC.
EXTENDS SchedulePreview, TLC

CONSTANTS k1, k2, k3, a, b, c

MCKeys == {k1, k2, k3}
MCTasks == {a, b, c}
MCSeeded == {a, b}
MCImported == {c}
MCEdges == {<<a, b>>, <<b, a>>}

Work(x, y, z, requests, previews) ==
    [kind |-> (k1 :> x) @@ (k2 :> y) @@ (k3 :> z), requests |-> requests,
     previews |-> previews, lossy |-> TRUE]
Reliable(work_) == [work_ EXCEPT !.lossy = FALSE]

\* Two commands that race, each sent once or one of them retried; an apply with a
\* retry; an import and an apply around an edit; previews that share a calculation.
MCWorkloads ==
    {Work("link", "link", "unused", 3, 0), Work("pin", "edit", "unused", 3, 0),
     Work("pin", "pin", "unused", 3, 0), Work("edit", "unused", "unused", 3, 0),
     Work("apply", "link", "unused", 2, 1), Work("apply", "unused", "unused", 3, 1),
     Reliable(Work("import", "edit", "apply", 3, 1)), Work("edit", "unused", "unused", 1, 3)}

\* One apply and its retry.
MCRetry == {Work("apply", "unused", "unused", 2, 1)}

\* An import, an edit and one preview.
MCImportEdit == {Work("import", "edit", "unused", 2, 1)}
=============================================================================
