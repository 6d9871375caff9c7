------------------------------- MODULE MCTests -------------------------------
(* The serial test programs, hdf5_test and vol_test with its file tests,   *)
(* with VOL connectors of different capabilities.                          *)
EXTENDS FileSurvey

hdf5_test == INSTANCE testhdf5
vol_test == INSTANCE vol_test

\* Written with LET, TLC's coverage statistics do not spell out every test at
\* every reference to it.
Programs ==
    [g \in DOMAIN hdf5_test!main \cup {"vol_test"} |->
        IF g = "vol_test" THEN vol_test!main ELSE hdf5_test!main[g]]
MCSuite == LET main == Programs IN main

\* hdf5_test alone, whose main does not ask the connector for its flags.
SkippingSuite == LET main == hdf5_test!main IN main

\* The capability flags (H5VL_CAP_FLAG_...) the tests ask for.
AllFlags == {"FILE_BASIC", "FILE_MORE", "DATASET_BASIC", "DATASET_MORE", "ATTR_BASIC",
             "GROUP_BASIC", "GROUP_MORE", "LINK_BASIC", "LINK_MORE", "REF_BASIC",
             "STORED_DATATYPES", "CREATION_ORDER", "ITERATE", "EXTERNAL_LINKS",
             "UD_LINKS", "FILL_VALUES", "FLUSH_REFRESH", "GET_PLIST", "MOUNT"}
SomeConnectors ==
    {AllFlags, AllFlags \ {"FILE_MORE", "ITERATE", "STORED_DATATYPES", "CREATION_ORDER"}, {}}
MCConnectors == SomeConnectors

\* Without H5VL_CAP_FLAG_FILE_MORE test_get_obj_ids does not look for the files
\* it has opened, and so does not close them.
MCLeftOpen == {<<"FILE_MORE", "tfile7.h5">>}

\* Two names are given h5_fixname's suffix twice, and cleaned up with one.
MCLeftOver == {"tfile1.h5.h5", "tmisc15.h5.h5"}
=============================================================================
