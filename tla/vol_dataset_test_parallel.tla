---------------------- MODULE vol_dataset_test_parallel ----------------------
(* vol_dataset_test_parallel.c: the dataset tests of vol_test_parallel.    *)
EXTENDS TestSteps

LOCAL vol_test_parallel_filename == "vol_test_parallel.h5"

\* HDmalloc, or a comparison of the data read.
LOCAL Work == Use({})

LOCAL Entered ==
    <<Make("fapl_id", {}), OpenFile("file_id", vol_test_parallel_filename, {"fapl_id"}),
      Open("container_group", "file_id", {})>>
LOCAL GroupsClosed == <<Close("group_id"), Close("container_group")>>
LOCAL Left == GroupsClosed \o <<Close("fapl_id"), Close("file_id")>>

\* "Close and re-open the file to ensure that the data gets written."
LOCAL Reopened ==
    GroupsClosed
    \o <<Close("file_id"), OpenFile("file_id", vol_test_parallel_filename, {"fapl_id"}),
         Open("container_group", "file_id", {}), Open("group_id", "container_group", {})>>

LOCAL Released(handles) == [i \in DOMAIN handles |-> Unchecked(Close(handles[i]))]
LOCAL Handles == <<"mspace_id", "fspace_id", "dset_id">>
LOCAL Locations == <<"group_id", "container_group", "fapl_id", "file_id">>
LOCAL AllIds == {"dset_id", "fspace_id", "mspace_id"}

LOCAL Flags == {"FILE_BASIC", "GROUP_BASIC", "DATASET_BASIC", "DATASET_MORE"}
LOCAL On(handles, s) == Needs(Flags, Attempt(s, handles \o Locations))
LOCAL OnDataset(s) == On(Handles, s)

\* generate_random_parallel_dimensions, and a dataset of these dimensions.
LOCAL DatasetMade ==
    Entered
    \o <<New("group_id", "container_group", {}), Sync("MPI_Bcast"), Make("fspace_id", {}),
         New("dset_id", "group_id", {"fspace_id"})>>

\* Rank 0 creates the dataset of a test in a file it opens alone.
LOCAL MadeByMain(s) ==
    Independent(When("main",
        <<Alone(OpenFile("file_id", vol_test_parallel_filename, {})),
          Open("container_group", "file_id", {}), New("group_id", "container_group", {}),
          Make("fspace_id", {})>>
        \o s \o GroupsClosed \o <<Close("file_id")>>))
LOCAL InTheFileOfMain ==
    MadeByMain(<<New("dset_id", "group_id", {"fspace_id"}), Make("mspace_id", {}),
                 Use({"dset_id", "mspace_id"})>>
               \o Released(Handles))

\* FAULTY: the other ranks do not wait for rank 0 with opening the file.
DatasetMadeByMainLate == <<Sync("MPI_Bcast")>> \o Entered \o InTheFileOfMain

DatasetMadeByMain ==
    <<Sync("MPI_Bcast")>> \o InTheFileOfMain \o Entered
    \o <<Open("group_id", "container_group", {}), Open("dset_id", "group_id", {}),
         Make("fspace_id", {"dset_id"}), Use({"fspace_id"})>>

\* Both branches of if (MAINPROCESS) select elements of the file's dataspace.
LOCAL SelectionSet ==
    Independent(When("main", <<Use({"fspace_id"})>>)
                \o Unless("main", <<Use({"fspace_id"})>>))
LOCAL Transferred == Independent(<<Use(AllIds)>>)

\* The data is read back from the re-opened file, and verified.
LOCAL ReadBack ==
    Released(Handles) \o Reopened
    \o <<Open("dset_id", "group_id", {}), Make("fspace_id", {"dset_id"}),
         Use({"dset_id", "fspace_id"})>>
LOCAL Verified == ReadBack \o <<Close("fspace_id"), Close("dset_id")>> \o Left

-----------------------------------------------------------------------------
LOCAL ThreeDatasets ==
    LET Dataset == <<New("dset_id", "group_id", {"fspace_id"}), Unchecked(Close("dset_id"))>>
    IN  Dataset \o Dataset \o Dataset

\* One part: the dataset is written by every rank where its selection is.
LOCAL WriteSelectionRead ==
    Part(<<Open("dset_id", "group_id", {}), Make("fspace_id", {"dset_id"}),
           Use({"fspace_id"}), Make("mspace_id", {}), Use(AllIds)>>
         \o ReadBack)

test_write_dataset_data_verification ==
    OnDataset(
        Entered
        \o <<New("group_id", "container_group", {}), Sync("MPI_Bcast"), Make("fspace_id", {})>>
        \o ThreeDatasets
        \o Multipart(
            Part(<<Open("dset_id", "group_id", {})>>
                 \o ReducedInPart(When("main", <<Use({"dset_id"})>>), "MPI_LAND")
                 \o Released(<<"fspace_id", "dset_id">>) \o Reopened
                 \o <<Open("dset_id", "group_id", {}), Make("fspace_id", {"dset_id"}),
                      Use({"dset_id", "fspace_id"})>>)
            \o Released(<<"fspace_id", "dset_id">>)
            \o WriteSelectionRead \o Released(<<"fspace_id", "mspace_id", "dset_id">>)
            \o WriteSelectionRead \o Released(<<"fspace_id", "mspace_id", "dset_id">>))
        \o Left)

test_write_dataset_independent ==
    LET Datasets == <<"dset_id1", "dset_id2">>
        Written == <<Use({"dset_id1", "dset_id2", "fspace_id", "mspace_id"})>>
    IN  On(<<"mspace_id", "fspace_id">> \o Datasets,
        Entered
        \o <<New("group_id", "container_group", {}), Sync("MPI_Bcast"), Make("fspace_id", {}),
             New("dset_id1", "group_id", {"fspace_id"}),
             New("dset_id2", "group_id", {"fspace_id"}),
             Use({"fspace_id"}), Make("mspace_id", {})>>
        \o Independent(Unless("odd", Written) \o When("odd", Written))
        \o Released(<<"mspace_id", "fspace_id">> \o Datasets)
        \o Reopened
        \o <<Open("dset_id1", "group_id", {}), Open("dset_id2", "group_id", {}),
             Make("fspace_id", {"dset_id1"}), Use({"dset_id1", "dset_id2", "fspace_id"}),
             Close("fspace_id"), Close("dset_id1"), Close("dset_id2")>>
        \o Left)

test_write_dataset_one_proc_0_selection ==
    OnDataset(DatasetMade \o Independent(Unless("main", <<Work>>))
              \o <<Use({"fspace_id"}), Make("mspace_id", {})>> \o Transferred \o Verified)

test_write_dataset_one_proc_none_selection ==
    OnDataset(DatasetMade \o Independent(Unless("main", <<Work>>)) \o SelectionSet
              \o <<Make("mspace_id", {})>> \o Transferred \o Verified)

test_write_dataset_one_proc_all_selection ==
    OnDataset(DatasetMade \o Independent(When("main", <<Work>>)) \o SelectionSet
              \o <<Make("mspace_id", {})>> \o Transferred \o Verified)

\* Rank 0 writes from a selection in memory.
LOCAL WrittenByMain ==
    OnDataset(DatasetMade \o Independent(When("main", <<Work>>))
              \o Independent(When("main", <<Make("mspace_id", {}),
                                            Use({"dset_id", "mspace_id"})>>))
              \o Verified)
test_write_dataset_all_file_hyper_mem == WrittenByMain
test_write_dataset_all_file_point_mem == WrittenByMain

LOCAL WrittenByAll ==
    OnDataset(DatasetMade \o <<Use({"fspace_id"}), Make("mspace_id", {}), Use(AllIds)>>
              \o Verified)
test_write_dataset_hyper_file_point_mem == WrittenByAll
test_write_dataset_point_file_hyper_mem == WrittenByAll

-----------------------------------------------------------------------------
LOCAL Closed == [i \in DOMAIN Handles |-> Close(Handles[i])]

test_read_dataset_one_proc_0_selection ==
    OnDataset(DatasetMadeByMain \o Independent(Unless("main", <<Work>>))
              \o <<Make("mspace_id", {}), Use({"fspace_id"})>> \o Transferred
              \o Independent(Unless("main", <<Work>>)) \o Closed \o Left)

test_read_dataset_one_proc_none_selection ==
    OnDataset(DatasetMadeByMain \o Independent(Unless("main", <<Work>>))
              \o <<Make("mspace_id", {})>> \o SelectionSet \o Transferred
              \o Independent(Unless("main", <<Work>>)) \o Closed \o Left)

test_read_dataset_one_proc_all_selection ==
    OnDataset(DatasetMadeByMain \o Independent(When("main", <<Work>>))
              \o <<Make("mspace_id", {})>> \o SelectionSet \o Transferred
              \o Independent(When("main", <<Work>>)) \o Closed \o Left)

\* mspace_id is not closed when the test passes.
LOCAL ReadByMain ==
    OnDataset(DatasetMadeByMain
              \o Independent(When("main", <<Make("mspace_id", {}),
                                            Use({"dset_id", "mspace_id"})>>))
              \o <<Close("fspace_id"), Close("dset_id")>> \o Left)
test_read_dataset_all_file_hyper_mem == ReadByMain
test_read_dataset_all_file_point_mem == ReadByMain

\* Here neither.
test_read_dataset_hyper_file_point_mem ==
    OnDataset(DatasetMadeByMain \o <<Make("mspace_id", {}), Use(AllIds), Close("fspace_id"),
                                     Close("dset_id")>>
              \o Left)

test_read_dataset_point_file_hyper_mem ==
    OnDataset(DatasetMadeByMain \o <<Make("mspace_id", {}), Use(AllIds)>> \o Closed \o Left)

-----------------------------------------------------------------------------
LOCAL ChunkedByMain ==
    MadeByMain(<<Make("dcpl_id", {}), Use({"dcpl_id"}),
                 New("dset_id", "group_id", {"dcpl_id", "fspace_id"}), Close("dcpl_id"),
                 Make("dcpl_id", {"dset_id"}), Use({"dcpl_id", "dset_id"})>>
               \o Released(<<"fspace_id", "dcpl_id", "dset_id">>))
    \o Entered \o <<Open("group_id", "container_group", {})>>
LOCAL OnChunks(s) == Needs({"GET_PLIST"}, On(<<"dcpl_id">> \o Handles, ChunkedByMain \o s))

LOCAL WrittenAtOnce ==
    OnChunks(<<Open("dset_id", "group_id", {}), Make("fspace_id", {"dset_id"}),
               Make("mspace_id", {})>>
             \o Twice(<<Sync("MPI_Barrier"), Use(AllIds)>>) \o Closed \o Left)
test_write_multi_chunk_dataset_same_shape_read == WrittenAtOnce
test_write_multi_chunk_dataset_diff_shape_read == WrittenAtOnce

\* Every round rank 0 writes the dataset, and after a barrier all ranks read it.
LOCAL Overwritten ==
    OnChunks(<<Make("mspace_id", {})>>
             \o Twice(<<Open("dset_id", "group_id", {})>>
                      \o Independent(When("main", <<Use({"dset_id"})>>))
                      \o Released(<<"dset_id">>)
                      \o <<Sync("MPI_Barrier"), Open("dset_id", "group_id", {}),
                           Make("fspace_id", {"dset_id"}), Use(AllIds)>>
                      \o Released(<<"fspace_id", "dset_id">>) \o <<Sync("MPI_Barrier")>>)
             \o <<Close("mspace_id")>> \o Left)
test_overwrite_multi_chunk_dataset_same_shape_read == Overwritten
test_overwrite_multi_chunk_dataset_diff_shape_read == Overwritten

-----------------------------------------------------------------------------
\* Before the tests, rank 0 creates the container and its group for datasets.
create_test_container ==
    Test(When("main",
        <<Alone(Create("file_id", vol_test_parallel_filename, {}))>>
        \o Needs({"GROUP_BASIC"}, IfMade(New("group_id", "file_id", {}),
                                         <<Unchecked(Close("group_id"))>>))
        \o <<Close("file_id")>>))

\* par_dataset_tests; its four other members only report that they are skipped.
par_dataset_tests ==
    <<test_write_dataset_data_verification, test_write_dataset_independent,
      test_write_dataset_one_proc_0_selection, test_write_dataset_one_proc_none_selection,
      test_write_dataset_one_proc_all_selection, test_write_dataset_all_file_hyper_mem,
      test_write_dataset_all_file_point_mem, test_write_dataset_hyper_file_point_mem,
      test_write_dataset_point_file_hyper_mem, test_read_dataset_one_proc_0_selection,
      test_read_dataset_one_proc_none_selection, test_read_dataset_one_proc_all_selection,
      test_read_dataset_all_file_hyper_mem, test_read_dataset_all_file_point_mem,
      test_read_dataset_hyper_file_point_mem, test_read_dataset_point_file_hyper_mem,
      test_write_multi_chunk_dataset_same_shape_read,
      test_write_multi_chunk_dataset_diff_shape_read,
      test_overwrite_multi_chunk_dataset_same_shape_read,
      test_overwrite_multi_chunk_dataset_diff_shape_read>>

\* After each of them the ranks wait for each other.
vol_dataset_test_parallel ==
    LET All == <<create_test_container>> \o par_dataset_tests
    IN  [i \in DOMAIN All |-> Append(All[i], Sync("MPI_Barrier"))]
=============================================================================
