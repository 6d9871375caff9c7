---------------------------- MODULE t_chunk_alloc ----------------------------
\* t_chunk_alloc.c: a chunked dataset created by one rank, extended by all.
EXTENDS TestSteps

create_chunked_dataset(sec_last) ==
    Test(
      When("main",
          <<Make("dataspace", {}), Make("memspace", {}),
            Alone(Create("file_id", "ParaTest.h5", {})), Make("cparms", {}),
            Use({"cparms"}), New("dataset", "file_id", {"cparms", "dataspace"})>>
          \o (IF sec_last THEN <<Use({"dataset", "dataspace", "memspace"})>> ELSE << >>)
          \o <<Close("dataset"), Close("dataspace"), Close("memspace"), Close("cparms"),
               Close("file_id")>>)
      \o <<Sync("MPI_Barrier")>>)

\* reopen: *file_id and *dataset are -1.
Reopened(reopen) ==
    <<Make("access_plist", {}), Use({"access_plist"})>>
    \o (IF reopen THEN <<OpenFile("file_id", "ParaTest.h5", {"access_plist"}),
                         Open("dataset", "file_id", {})>>
                  ELSE << >>)

parallel_access_dataset(action, reopen) ==
    Returning({"file_id", "dataset"},
      Reopened(reopen)
      \o <<Sync("MPI_Barrier"), Make("memspace", {}), Make("dataspace", {"dataset"}),
           Use({"dataset", "dataspace", "memspace"})>>
      \o (IF action = "extend_only" THEN <<Together("H5Dset_extent", "dataset", {})>>
                                    ELSE << >>)
      \o <<Close("dataset"), Close("dataspace"), Close("memspace"), Close("file_id"),
           Close("access_plist"), Sync("MPI_Barrier")>>)

verify_data(vclose) ==
    Returning({"file_id", "dataset"},
      Reopened(TRUE)
      \o <<Make("memspace", {}), Make("dataspace", {"dataset"}),
           Use({"dataset", "dataspace", "memspace"}), Close("dataspace"),
           Close("memspace"), Close("access_plist")>>
      \o (IF vclose THEN <<Close("dataset"), Close("file_id")>> ELSE << >>)
      \o <<Sync("MPI_Barrier")>>)

test_chunk_alloc ==
    Test(
      Needs({"FILE_BASIC", "DATASET_BASIC", "DATASET_MORE"},
          create_chunked_dataset(FALSE)
          \o parallel_access_dataset("open_only", TRUE) \o verify_data(TRUE)
          \o create_chunked_dataset(FALSE)
          \o parallel_access_dataset("extend_only", TRUE) \o verify_data(TRUE)
          \o create_chunked_dataset(TRUE)
          \o verify_data(FALSE)
          \o parallel_access_dataset("write_all", FALSE) \o verify_data(TRUE)))

==============================================================================
