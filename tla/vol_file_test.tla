---------------------------- MODULE vol_file_test ----------------------------
\* vol_file_test.c: the file tests of vol_test.
EXTENDS TestSteps

LOCAL vol_test_filename == "vol_test.h5"

\* A test with the flags it asks for and the handles closed after its error label.
LOCAL Asking(flags, handles, s) == Needs({"FILE_BASIC"} \cup flags, Attempt(s, handles))

\* if (id >= 0) { H5E_BEGIN_TRY { close id } H5E_END_TRY; }
LOCAL Released(handles) == [i \in DOMAIN handles |-> Unchecked(Close(handles[i]))]

\* prefix_filename, HDmalloc, or calls that must not succeed.
LOCAL Work == Use({})

test_create_file ==
    Asking({}, <<"file_id">>,
        <<Work, Create("file_id", "test_file.h5", {}), Close("file_id")>>)

\* Its error label also removes a file that should not have been created.
test_create_file_invalid_params ==
    Asking({}, <<"file_id">>,
        <<Work>> \o Multipart(Part(<<Work>>) \o Part(<<Work>>) \o Part(<<Work>>)))

\* The file is created with H5F_ACC_EXCL, which fails the second time, and with
\* H5F_ACC_TRUNC.
test_create_file_excl ==
    Asking({}, <<"file_id", "file_id2">>,
        <<Work, Create("file_id", "excl_flag_file.h5", {}), Close("file_id"), Work,
          Create("file_id", "excl_flag_file.h5", {}), Close("file_id")>>)

LOCAL OpenedInPart(s) ==
    Part(<<OpenFile("file_id", vol_test_filename, {})>> \o s) \o Released(<<"file_id">>)

\* Read-only, and read-write.
test_open_file == Asking({}, <<"file_id">>, Multipart(OpenedInPart(<< >>) \o OpenedInPart(<< >>)))

test_open_file_invalid_params ==
    Asking({}, <<"file_id">>, Multipart(Part(<<Work>>) \o Part(<<Work>>)))

test_open_nonexistent_file == Asking({}, <<"file_id">>, <<Work, Work>>)

\* Nothing can be created in a file that is open read-only.
test_file_permission ==
    Asking({"GROUP_BASIC", "DATASET_BASIC", "ATTR_BASIC", "STORED_DATATYPES"},
        <<"dspace_id", "dset_id", "attr_id", "dtype_id", "group_id", "file_id">>,
        <<Work, Create("file_id", "file_permission.h5", {}), Make("dspace_id", {}),
          New("dset_id", "file_id", {"dspace_id"}), Close("dset_id"), Close("file_id"),
          OpenFile("file_id", "file_permission.h5", {})>>
        \o Multipart(
            Part(<<Use({"file_id"})>>) \o Part(<<Use({"dspace_id", "file_id"})>>)
            \o Part(<<Use({"dspace_id", "file_id"})>>)
            \o Part(<<Make("dtype_id", {}), Use({"dtype_id", "file_id"})>>))
        \o <<Close("dtype_id"), Close("dspace_id"), Close("file_id")>>)

test_reopen_file ==
    Asking({}, <<"file_id", "file_id2">>,
        <<OpenFile("file_id", vol_test_filename, {}), Open("file_id2", "file_id", {}),
          Close("file_id"), Close("file_id2")>>)

test_close_file_invalid_id == Asking({}, << >>, <<Work>>)

test_flush_file ==
    Asking({"DATASET_BASIC", "FLUSH_REFRESH"}, <<"dspace_id", "dset_id", "file_id">>,
        <<Work, Create("file_id", "flush_file.h5", {}), Make("dspace_id", {})>>
        \o Twice(<<New("dset_id", "file_id", {"dspace_id"}), Close("dset_id")>>)
        \o Multipart(Part(<<Use({"file_id"})>>) \o Part(<<Use({"file_id"})>>))
        \o <<Close("dspace_id"), Close("file_id")>>)

test_file_is_accessible ==
    Asking({}, << >>, <<Work>> \o Multipart(Part(<<Work>>) \o Part(<<Work>>)))

LOCAL CreatePlists ==
    <<Make("fcpl_id1", {"file_id1"}), Make("fcpl_id2", {"file_id2"}),
      Use({"fcpl_id1", "fcpl_id2"})>>
LOCAL FileAndPlists ==
    <<"fcpl_id1", "fcpl_id2", "fapl_id1", "fapl_id2", "file_id1", "file_id2">>

test_file_property_lists ==
    LET file1 == "property_list_test_file1.h5"
        file2 == "property_list_test_file2.h5" IN
    Asking({"FILE_MORE", "GET_PLIST"}, FileAndPlists,
        <<Work, Make("fcpl_id1", {}), Use({"fcpl_id1"}),
          Create("file_id1", file1, {"fcpl_id1"}), Create("file_id2", file2, {}),
          Close("fcpl_id1")>>
        \o Multipart(
            Part(CreatePlists)
            \o Part(<<Make("fapl_id1", {"file_id1"}), Make("fapl_id2", {"file_id2"})>>)
            \o Released(FileAndPlists)
            \o Part(<<OpenFile("file_id1", file1, {}), OpenFile("file_id2", file2, {})>>
                    \o CreatePlists))
        \o <<Close("fcpl_id1"), Close("fcpl_id2"), Close("file_id1"), Close("file_id2")>>)

test_get_file_intent ==
    Asking({"FILE_MORE"}, <<"file_id">>,
        <<Work, Create("file_id", "intent_test_file.h5", {})>>
        \o Multipart(
            Part(<<Use({"file_id"})>>) \o Released(<<"file_id">>)
            \o OpenedInPart(<<Use({"file_id"})>>) \o OpenedInPart(<<Use({"file_id"})>>)))

\* Counts what is open in these files and in all: an identifier an earlier test
\* has left open would be counted too.
test_get_file_obj_count ==
    Asking({"FILE_MORE", "DATASET_BASIC", "GROUP_BASIC", "STORED_DATATYPES", "ATTR_BASIC"},
        <<"group_id", "named_dtype_id", "dspace_id", "attr_id", "dset_id", "file_id",
          "file_id2">>,
        <<Work, Create("file_id", "file_obj_count1.h5", {}), New("group_id", "file_id", {}),
          Create("file_id2", "file_obj_count2.h5", {}), Make("named_dtype_id", {}),
          Commit("named_dtype_id", "file_id2", {}), Make("dspace_id", {}),
          New("attr_id", "file_id2", {"dspace_id"}),
          New("dset_id", "file_id2", {"dspace_id"})>>
        \o Multipart(
            Part(<<Work>>) \o Part(<<Use({"file_id"})>>)
            \o Part(<<Work>>) \o Part(<<Work>>) \o Part(<<Work>>) \o Part(<<Work>>)
            \o Part(<<Use({"file_id"})>>) \o Part(<<Work>>) \o Part(<<Use({"file_id"})>>))
        \o <<Close("group_id"), Close("dspace_id"), Close("attr_id"),
             Close("named_dtype_id"), Close("dset_id"), Close("file_id"),
             Close("file_id2")>>)

test_file_open_overlap ==
    Asking({"FILE_MORE", "DATASET_BASIC", "GROUP_BASIC"},
        <<"group_id", "dspace_id", "dset_id", "file_id", "file_id2">>,
        <<Work, Create("file_id", "overlapping_file.h5", {}),
          OpenFile("file_id2", "overlapping_file.h5", {}), New("group_id", "file_id", {}),
          Make("dspace_id", {}), New("dset_id", "group_id", {"dspace_id"}),
          Use({"file_id"}), Close("group_id"), Close("dset_id"), Close("file_id"),
          New("dset_id", "file_id2", {"dspace_id"}), Use({"file_id2"}),
          Close("dspace_id"), Close("dset_id"), Close("file_id2")>>)

test_file_mounts ==
    Asking({"MOUNT", "GROUP_BASIC"}, <<"group_id", "file_id", "child_fid">>,
        <<Work, Create("file_id", "file_mount.h5", {}), New("group_id", "file_id", {}),
          OpenFile("child_fid", vol_test_filename, {}), Use({"child_fid", "file_id"}),
          Close("group_id"), Close("file_id"), Close("child_fid")>>)

\* H5Fget_name of an object of the file, which is closed after it.
LOCAL Named(h) == <<Use({h})>>

test_get_file_name ==
    Asking({"FILE_MORE", "DATASET_BASIC", "GROUP_BASIC", "STORED_DATATYPES", "ATTR_BASIC"},
        <<"named_dtype_id", "dspace_id", "dset_id", "attr_id", "group_id", "file_id">>,
        <<Work, Create("file_id", "file_name_retrieval.h5", {}), Use({"file_id"})>>
        \o Multipart(
            Part(Named("file_id"))
            \o Part(<<New("group_id", "file_id", {})>> \o Named("group_id")
                    \o Released(<<"group_id">>))
            \o Part(<<Make("dspace_id", {}), New("dset_id", "file_id", {"dspace_id"})>>
                    \o Named("dset_id") \o Released(<<"dspace_id", "dset_id">>))
            \o Part(<<Make("dspace_id", {}), New("attr_id", "file_id", {"dspace_id"})>>
                    \o Named("attr_id") \o Released(<<"dspace_id", "attr_id">>))
            \o Part(<<Make("named_dtype_id", {}), Commit("named_dtype_id", "file_id", {})>>
                    \o Named("named_dtype_id") \o Released(<<"named_dtype_id">>))
            \o Part(<<Make("dspace_id", {})>> \o Named("dspace_id")
                    \o Released(<<"dspace_id">>)))
        \o <<Close("file_id")>>)

-----------------------------------------------------------------------------
\* In the order of file_tests.
file_tests ==
    <<test_create_file, test_create_file_invalid_params, test_create_file_excl,
      test_open_file, test_open_file_invalid_params, test_open_nonexistent_file,
      test_file_open_overlap, test_file_permission, test_reopen_file,
      test_close_file_invalid_id, test_flush_file, test_file_is_accessible,
      test_file_property_lists, test_get_file_intent, test_get_file_obj_count,
      test_file_mounts, test_get_file_name>>

\* A file that was not created, because its test was skipped, is not there to be
\* removed; remove_test_file says so, and nothing comes of it.
cleanup_files ==
    LET names == <<"test_file.h5", "excl_flag_file.h5", "overlapping_file.h5",
                   "file_permission.h5", "flush_file.h5", "property_list_test_file1.h5",
                   "property_list_test_file2.h5", "intent_test_file.h5",
                   "file_obj_count1.h5", "file_obj_count2.h5", "file_mount.h5",
                   "file_name_retrieval.h5">>
    IN  [i \in DOMAIN names |-> Unchecked(Delete(names[i]))]

vol_file_test == Append(file_tests, Needs({"FILE_BASIC"}, cleanup_files))
=============================================================================
