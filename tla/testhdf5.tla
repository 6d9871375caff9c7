------------------------------ MODULE testhdf5 ------------------------------
\* testhdf5.c: the main program of the serial tests.
EXTENDS TestSteps

LOCAL file == INSTANCE tfile
LOCAL h5o == INSTANCE th5o
LOCAL h5s == INSTANCE th5s
LOCAL coords == INSTANCE tcoords
LOCAL attr == INSTANCE tattr
LOCAL select == INSTANCE tselect
LOCAL time == INSTANCE ttime
LOCAL reference == INSTANCE trefer
LOCAL vltypes == INSTANCE tvltypes
LOCAL vlstrings == INSTANCE tvlstr
LOCAL iterate == INSTANCE titerate
LOCAL array == INSTANCE tarray
LOCAL genprop == INSTANCE tgenprop
LOCAL unicode == INSTANCE tunicode
LOCAL misc == INSTANCE tmisc

\* if (!getenv("HDF5_NOCLEANUP")) { cleanup_...(); }
LOCAL Group(test_x, cleanup_x) ==
    [mpi_size |-> 1, tests |-> <<test_x, Unless("HDF5_NOCLEANUP", cleanup_x)>>]

\* The tests main runs, each with its cleanup.  Main makes every test before the
\* first cleanup; no two groups use the same file, so each is run by itself.
\* test_attr leaves the second round of its loop over new_format out (continue);
\* the tests of that round, built and kept up to date, are a group all the same.
main == [
    file |-> Group(file!test_file, file!cleanup_file),
    h5o |-> Group(h5o!test_h5o, h5o!cleanup_h5o),
    h5s |-> Group(h5s!test_h5s, h5s!cleanup_h5s),
    coords |-> Group(coords!test_coords, coords!cleanup_coords),
    attr |-> Group(attr!test_attr, attr!cleanup_attr),
    attr_new_format |-> Group(attr!test_attr_new_format, attr!cleanup_attr),
    select |-> Group(select!test_select, select!cleanup_select),
    time |-> Group(time!test_time, time!cleanup_time),
    reference |-> Group(reference!test_reference, reference!cleanup_reference),
    vltypes |-> Group(vltypes!test_vltypes, vltypes!cleanup_vltypes),
    vlstrings |-> Group(vlstrings!test_vlstrings, vlstrings!cleanup_vlstrings),
    iterate |-> Group(iterate!test_iterate, iterate!cleanup_iterate),
    array |-> Group(array!test_array, array!cleanup_array),
    genprop |-> Group(genprop!test_genprop, genprop!cleanup_genprop),
    unicode |-> Group(unicode!test_unicode, unicode!cleanup_unicode),
    misc |-> Group(misc!test_misc, misc!cleanup_misc) ]
=============================================================================
