----------------------------- MODULE SfPrograms -----------------------------
(***************************************************************************)
(* The operations of the C API as the guard of SfOperation sees them: each *)
(* is the set of the sequences of steps that its body between TRY and      *)
(* END_TRY can be, over configurations and inputs.  What a step computes   *)
(* is left out; that it may raise, fail, poll or fill an output is kept.   *)
(*                                                                         *)
(*   alloc   allocates in the arena, and may raise                         *)
(*   work    calls a module, which may raise or fail                       *)
(*   check   asks whether to stop, and raises if so                        *)
(*   poll    tells the host of progress, then as check                     *)
(*   stage   work, its report, and a poll even if the work failed          *)
(*   always  a poll even if the operation has failed already               *)
(*   report  fills the caller's optional report                            *)
(*   emit    copies an output out, and may run out of memory               *)
(*   answer  fills an output in place: it needs no memory and cannot fail  *)
(***************************************************************************)
EXTENDS Naturals, Sequences

CONSTANT MaxParts     \* bound: components of a mesh, iterations of a descent

RECURSIVE Times(_, _)
Times(n, s) == IF n = 0 THEN <<>> ELSE s \o Times(n - 1, s)
UpTo(n, s) == {Times(i, s) : i \in 0 .. n}
Optional(s) == UpTo(1, s)
A \odot B == {a \o b : a \in A, b \in B}
-----------------------------------------------------------------------------
sf_mesh_load_obj         == {<<"work", "emit">>}
sf_topology_audit        == {<<"work", "answer", "alloc", "answer">>}
sf_developability_energy == {<<"work", "alloc", "report", "emit">>}
sf_count_sheets          == {<<"work", "answer">>}

sf_cleanup ==
  {<<"alloc">>} \odot UpTo(3, <<"stage">>) \odot Optional(<<"work", "report", "work">>)
    \odot {<<"alloc", "poll", "emit">>}

sf_fill_holes        == {<<"work", "report", "alloc", "emit">>}
sf_decimate          == {<<"work", "report", "emit">>}
sf_fair_developable  == {<<"alloc">>} \odot UpTo(MaxParts, <<"check">>)
                          \odot {<<"work", "report", "alloc", "emit">>}
sf_orient            == {<<"work", "report", "alloc", "emit">>}

emit_pieces             == <<"alloc", "emit">>
sf_split_depth_peel     == {<<"work", "report">> \o emit_pieces}
sf_split_developability == {<<"work", "report">> \o emit_pieces}
sf_split_bridges        == {<<"work", "report">> \o emit_pieces}
sf_split_overlap        == {<<"work", "report">> \o emit_pieces}

(* A stage that fails keeps the piece: the loop itself cannot fail.         *)
sf_detangle ==
  {<<"alloc">>} \odot UpTo(4, <<"poll", "alloc">>)
    \odot {<<"report", "poll">> \o emit_pieces}

sf_cut_to_disk ==
  {<<"work", "poll", "work">>} \odot UpTo(MaxParts, <<"alloc", "report", "poll">>)
    \odot {<<"alloc", "report", "emit">>}

sf_sever_short_handles == {<<"work", "alloc", "answer", "emit">>}
sf_find_handle_loops   == {<<"alloc", "emit">>}
sf_reconstruct_bpa     == {<<"work", "report", "alloc", "emit">>}
sf_mls_project         == {<<"alloc", "check", "emit">>}
sf_selftest            == {<<"alloc", "answer">>}

sf_pipeline_run == {<<"poll", "work", "report", "poll", "emit">>} \odot Optional(<<"emit">>)

sf_weld ==
  {<<"alloc", "poll", "alloc", "report", "alloc", "poll", "stage">>}
    \odot Optional(<<"stage", "work", "report">>) \odot {<<"always", "work">>}
    \odot Optional(<<"stage", "work">>) \odot {<<"poll", "emit">>}
-----------------------------------------------------------------------------
(* What an operation does with its guard: whether it has the caller's       *)
(* options, how many allocations precede the body, and the body.            *)
Operations(opts, tunes, bodies) == [opts : {opts}, tunes : {tunes}, body : bodies]

AllPrograms ==
  Operations(FALSE, 0, sf_mesh_load_obj \cup sf_selftest)
    \cup Operations(TRUE, 0,
           UNION {sf_topology_audit, sf_developability_energy, sf_count_sheets, sf_cleanup,
                  sf_fill_holes, sf_decimate, sf_fair_developable, sf_orient,
                  sf_split_depth_peel, sf_split_developability, sf_split_bridges,
                  sf_split_overlap, sf_detangle, sf_cut_to_disk, sf_sever_short_handles,
                  sf_find_handle_loops, sf_reconstruct_bpa, sf_mls_project})
    \cup Operations(TRUE, 1, sf_pipeline_run)
    \cup Operations(TRUE, 2, sf_weld)
=============================================================================
