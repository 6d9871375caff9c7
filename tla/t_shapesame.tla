----------------------------- MODULE t_shapesame -----------------------------
\* t_shapesame.c: a program that transfers between selections of the same shape
\* and different rank; every file of its tests has the name ShapeSameTest.h5.
EXTENDS TestSteps

\* Transfers of the tests: with COL_CONTIG and COL_CHUNKED all ranks make them
\* together, with IND_CONTIG and IND_CHUNKED each on its own.
LOCAL Moved(collective, dset, mem_sid, file_sid) ==
    IF collective THEN Transfer(dset, {mem_sid, file_sid, "xfer_plist"})
                  ELSE Use({dset, mem_sid, file_sid, "xfer_plist"})

\* The identifiers of struct hs_dr_pio_test_vars_t that setup makes and
\* takedown closes, in that order.
LOCAL Dataspaces ==
    <<"full_mem_small_ds_sid", "full_file_small_ds_sid", "mem_small_ds_sid",
      "file_small_ds_sid_0", "file_small_ds_sid_1", "small_ds_slice_sid",
      "full_mem_large_ds_sid", "full_file_large_ds_sid", "mem_large_ds_sid",
      "file_large_ds_sid_0", "file_large_ds_sid_1", "mem_large_ds_process_slice_sid",
      "file_large_ds_process_slice_sid", "large_ds_slice_sid">>
LOCAL TestVars ==
    ToSet(Dataspaces) \cup {"fid", "small_dataset", "large_dataset", "xfer_plist"}

hs_dr_pio_test__setup(chunked, collective) ==
    Returning(TestVars,
      <<Make("acc_tpl", {}), Use({"acc_tpl"}),
        Create("fid", "ShapeSameTest.h5", {"acc_tpl"}), Close("acc_tpl")>>
      \o [i \in DOMAIN Dataspaces |-> Make(Dataspaces[i], {})]
      \o (IF chunked
          THEN <<Unchecked(Make("small_ds_dcpl_id", {})), Use({"small_ds_dcpl_id"}),
                 Unchecked(Make("large_ds_dcpl_id", {})), Use({"large_ds_dcpl_id"})>>
          ELSE << >>)
      \o <<Unchecked(New("small_dataset", "fid", {"file_small_ds_sid_0"}
                           \cup (IF chunked THEN {"small_ds_dcpl_id"} ELSE {}))),
           Unchecked(New("large_dataset", "fid", {"file_large_ds_sid_0"}
                           \cup (IF chunked THEN {"large_ds_dcpl_id"} ELSE {}))),
           Make("xfer_plist", {}),
           Use({"file_small_ds_sid_0", "mem_small_ds_sid", "xfer_plist"}),
           Moved(collective, "small_dataset", "mem_small_ds_sid", "file_small_ds_sid_0"),
           Sync("MPI_Barrier"),
           Moved(collective, "small_dataset", "full_mem_small_ds_sid", "full_file_small_ds_sid"),
           Use({"mem_large_ds_sid", "file_large_ds_sid_0", "mem_large_ds_process_slice_sid",
                "file_large_ds_process_slice_sid"}),
           Moved(collective, "large_dataset", "mem_large_ds_sid", "file_large_ds_sid_0"),
           Sync("MPI_Barrier"),
           Moved(collective, "large_dataset", "full_mem_large_ds_sid", "full_file_large_ds_sid"),
           Sync("MPI_Barrier")>>)

hs_dr_pio_test__takedown ==
    <<Close("xfer_plist")>>
    \o [i \in DOMAIN Dataspaces |-> Close(Dataspaces[i])]
    \o <<Close("small_dataset"), Close("large_dataset"), Close("fid")>>

\* Slices of the large dataset read into a slice of the small one, ...
contig_hs_dr_pio_test__d2m_l2s(collective) ==
    Twice(<<Use({"file_large_ds_sid_0", "small_ds_slice_sid"}),
            Moved(collective, "large_dataset", "small_ds_slice_sid", "file_large_ds_sid_0")>>)

\* ... the small dataset read into slices of the large one in memory, ...
contig_hs_dr_pio_test__d2m_s2l(collective) ==
    <<Use({"file_small_ds_sid_0"})>>
    \o Twice(<<Use({"file_small_ds_sid_0", "mem_large_ds_sid"}),
               Moved(collective, "small_dataset", "mem_large_ds_sid", "file_small_ds_sid_0")>>)

\* ... and the same two written, over zeros, and read back.
contig_hs_dr_pio_test__m2d_l2s(collective) ==
    <<Use({"file_small_ds_sid_0", "mem_small_ds_sid"})>>
    \o Twice(<<Moved(collective, "small_dataset", "mem_small_ds_sid", "file_small_ds_sid_0"),
               Use({"file_small_ds_sid_0", "mem_large_ds_sid"}),
               Moved(collective, "small_dataset", "mem_large_ds_sid", "file_small_ds_sid_0"),
               Moved(collective, "small_dataset", "mem_small_ds_sid", "file_small_ds_sid_0")>>)

contig_hs_dr_pio_test__m2d_s2l(collective) ==
    <<Use({"mem_small_ds_sid"})>>
    \o Twice(<<Moved(collective, "large_dataset", "large_ds_slice_sid",
                     "file_large_ds_process_slice_sid"),
               Use({"file_large_ds_sid_0", "mem_small_ds_sid"}),
               Moved(collective, "large_dataset", "mem_small_ds_sid", "file_large_ds_sid_0"),
               Moved(collective, "large_dataset", "mem_large_ds_process_slice_sid",
                     "file_large_ds_process_slice_sid")>>)

contig_hs_dr_pio_test__run_test(chunked, collective) ==
    Test(hs_dr_pio_test__setup(chunked, collective)
         \o contig_hs_dr_pio_test__d2m_l2s(collective)
         \o contig_hs_dr_pio_test__d2m_s2l(collective)
         \o contig_hs_dr_pio_test__m2d_l2s(collective)
         \o contig_hs_dr_pio_test__m2d_s2l(collective)
         \o hs_dr_pio_test__takedown)

contig_hs_dr_pio_test(chunked, collective) ==
    <<Sync("MPI_Allreduce")>> \o Twice(contig_hs_dr_pio_test__run_test(chunked, collective))

sscontig1 == contig_hs_dr_pio_test(FALSE, FALSE)
sscontig2 == contig_hs_dr_pio_test(FALSE, TRUE)
sscontig3 == contig_hs_dr_pio_test(TRUE, FALSE)
sscontig4 == contig_hs_dr_pio_test(TRUE, TRUE)

\* The tests with checkerboard selections.
ckrbrd_hs_dr_pio_test__slct_ckrbrd(tgt_sid) == <<Use({tgt_sid})>>

ckrbrd_hs_dr_pio_test__d2m_l2s(collective) ==
    ckrbrd_hs_dr_pio_test__slct_ckrbrd("small_ds_slice_sid")
    \o Twice(ckrbrd_hs_dr_pio_test__slct_ckrbrd("file_large_ds_sid_0")
             \o <<Use({"file_large_ds_sid_0", "small_ds_slice_sid"}),
                  Moved(collective, "large_dataset", "small_ds_slice_sid",
                        "file_large_ds_sid_0")>>)

ckrbrd_hs_dr_pio_test__d2m_s2l(collective) ==
    ckrbrd_hs_dr_pio_test__slct_ckrbrd("file_small_ds_sid_0")
    \o Twice(ckrbrd_hs_dr_pio_test__slct_ckrbrd("mem_large_ds_sid")
             \o <<Use({"file_small_ds_sid_0", "mem_large_ds_sid"}),
                  Moved(collective, "small_dataset", "mem_large_ds_sid",
                        "file_small_ds_sid_0")>>)

ckrbrd_hs_dr_pio_test__m2d_l2s(collective) ==
    <<Use({"file_small_ds_sid_0", "mem_small_ds_sid"})>>
    \o ckrbrd_hs_dr_pio_test__slct_ckrbrd("file_small_ds_sid_1")
    \o Twice(<<Moved(collective, "small_dataset", "mem_small_ds_sid", "file_small_ds_sid_0")>>
             \o ckrbrd_hs_dr_pio_test__slct_ckrbrd("mem_large_ds_sid")
             \o <<Use({"file_small_ds_sid_1", "mem_large_ds_sid"}),
                  Moved(collective, "small_dataset", "mem_large_ds_sid", "file_small_ds_sid_1"),
                  Moved(collective, "small_dataset", "mem_small_ds_sid", "file_small_ds_sid_0")>>)

ckrbrd_hs_dr_pio_test__m2d_s2l(collective) ==
    <<Use({"file_large_ds_sid_0", "mem_large_ds_sid"})>>
    \o ckrbrd_hs_dr_pio_test__slct_ckrbrd("mem_small_ds_sid")
    \o Twice(<<Moved(collective, "large_dataset", "mem_large_ds_sid", "file_large_ds_sid_0")>>
             \o ckrbrd_hs_dr_pio_test__slct_ckrbrd("file_large_ds_sid_1")
             \o <<Use({"file_large_ds_sid_1", "mem_small_ds_sid"}),
                  Moved(collective, "large_dataset", "mem_small_ds_sid", "file_large_ds_sid_1"),
                  Moved(collective, "large_dataset", "mem_large_ds_sid", "file_large_ds_sid_0")>>)

ckrbrd_hs_dr_pio_test__run_test(chunked, collective) ==
    Test(hs_dr_pio_test__setup(chunked, collective)
         \o ckrbrd_hs_dr_pio_test__d2m_l2s(collective)
         \o ckrbrd_hs_dr_pio_test__d2m_s2l(collective)
         \o ckrbrd_hs_dr_pio_test__m2d_l2s(collective)
         \o ckrbrd_hs_dr_pio_test__m2d_s2l(collective)
         \o hs_dr_pio_test__takedown)

ckrbrd_hs_dr_pio_test(chunked, collective) ==
    <<Sync("MPI_Allreduce")>> \o Twice(ckrbrd_hs_dr_pio_test__run_test(chunked, collective))

sschecker1 == ckrbrd_hs_dr_pio_test(FALSE, FALSE)
sschecker2 == ckrbrd_hs_dr_pio_test(FALSE, TRUE)
sschecker3 == ckrbrd_hs_dr_pio_test(TRUE, FALSE)
sschecker4 == ckrbrd_hs_dr_pio_test(TRUE, TRUE)

main ==
    Test(
      <<Unchecked(Make("fapl", {})), Use({"fapl"})>>
      \o Needs({"FILE_BASIC", "DATASET_BASIC"},
            sscontig1 \o sscontig2 \o sscontig3 \o sscontig4
            \o sschecker1 \o sschecker2 \o sschecker3 \o sschecker4
            \o <<Unchecked(Use({"fapl"})), Sync("MPI_Barrier"),
                 Unchecked(Delete("ShapeSameTest.h5")), Unchecked(Close("fapl")),
                 Sync("MPI_Allreduce")>>)
      \o <<Sync("MPI_Finalize")>>)

==============================================================================
