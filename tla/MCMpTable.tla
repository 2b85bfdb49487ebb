----------------------------- MODULE MCMpTable -----------------------------
(***************************************************************************)
(* Instances of MpTable for TLC.                                            *)
(***************************************************************************)
EXTENDS MpTable

Proc(id) == [type |-> "MPPROC", id |-> id]
Other(type) == [type |-> type, id |-> 0]
TwoCpus == <<Proc(0), Other("MPBUS"), Proc(2), [type |-> "MPIOAPIC", id |-> 1]>>

\* Every way to place up to two valid or damaged structures, a table that is
\* right or wrong in one respect, and vectors at address 0 that look like no entry.
Areas == {<<>>} \cup {<<s>> : s \in Slots} \cup {<<"badsum", "table">>, <<"default", "table">>}
SlotsOf(e, m, f) == ("ebda" :> e) @@ ("base" :> m) @@ ("rom" :> f)
Headers == {<<TRUE, 4, TRUE>>, <<TRUE, 1, TRUE>>, <<FALSE, 4, TRUE>>, <<TRUE, 2, TRUE>>,
            <<TRUE, 4, FALSE>>}

SearchImages ==
    {[ebda |-> d, slots |-> SlotsOf(e, m, f), signature |-> h[1], version |-> h[2],
      checksum |-> h[3], entries |-> TwoCpus, page0 |-> <<Other(Unknown)>>] :
        d \in BOOLEAN, e \in Areas, m \in {<<>>, <<"table">>}, f \in Areas, h \in Headers}

\* Every table of at most three entries.
EntryKinds == {Proc(0), Proc(3), [type |-> "MPIOAPIC", id |-> 1], Other("MPBUS"),
               Other("MPIOINTR"), Other("MPLINTR"), Other(Unknown)}
InEbda(t, z) ==
    [ebda |-> TRUE, slots |-> SlotsOf(<<"table">>, <<>>, <<>>), signature |-> TRUE,
     version |-> 4, checksum |-> TRUE, entries |-> t, page0 |-> z]
TableImages == {InEbda(t, <<>>) : t \in BoundedSeq(EntryKinds, 3)}

AllImages == SearchImages \cup TableImages

\* A table with an entry of another type.
UnknownImages == {InEbda(<<Proc(0), Other(Unknown)>>, <<>>)}

=============================================================================
