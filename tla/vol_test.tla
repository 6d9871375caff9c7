------------------------------- MODULE vol_test -------------------------------
\* vol_test.c: the main program of the serial VOL tests, running its file tests.
EXTENDS TestSteps

LOCAL file == INSTANCE vol_file_test

LOCAL vol_test_filename == "vol_test.h5"

\* A container group for each of the seven kinds of tests.
LOCAL ContainerGroup ==
    IfMade(New("group_id", "file_id", {}), <<Unchecked(Close("group_id"))>>)
create_test_container ==
    Attempt(
        <<Create("file_id", vol_test_filename, {})>>
        \o Needs({"GROUP_BASIC"}, Twice(ContainerGroup))
        \o <<Close("file_id")>>,
        <<"group_id", "file_id">>)

\* main: the property list the flags are read with, the container, the tests, the
\* removal of the container.  A connector without file support ends it before the
\* tests.  So does a container that could not be made, where the model goes on.
main ==
    [mpi_size |-> 1,
     tests |->
        << <<Make("fapl_id", {}), Use({"fapl_id"})>>,
           Needs({"FILE_BASIC"}, create_test_container)>>
        \o file!vol_file_test
        \o <<Needs({"FILE_BASIC"}, <<Unchecked(Delete(vol_test_filename))>>)
             \o <<Close("fapl_id")>> >>]
=============================================================================
