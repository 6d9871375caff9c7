------------------------------ MODULE titerate ------------------------------
\* titerate.c: the tests of group and attribute iteration.
EXTENDS TestSteps

test_iter_group(fapl) ==
    Test(
      Needs({"ITERATE", "FILE_BASIC", "GROUP_BASIC", "DATASET_BASIC", "STORED_DATATYPES", "GROUP_MORE", "LINK_MORE"},
          <<Create("file", "titerate.h5", {fapl}), Use({"file"}), Make("datatype", {}),
            Make("filespace", {})>>
          \o Twice(<<New("dataset", "file", {"datatype", "filespace"}), Close("dataset")>>)
          \o <<Unchecked(New("grp", "file", {})), Commit("datatype", "file", {}),
               Close("datatype"), Close("grp"), Close("filespace"), Close("file"),
               OpenFile("file", "titerate.h5", {fapl}), Open("root_group", "file", {}),
               Use({"root_group"}), Close("root_group"), Use({"file"}), Close("file")>>))

test_iter_group_large(fapl) ==
    Test(
      Needs({"ITERATE", "FILE_BASIC", "GROUP_BASIC", "DATASET_BASIC", "STORED_DATATYPES"},
          <<Create("file", "titerate.h5", {fapl}), Make("sid", {})>>
          \o Twice(<<New("group", "file", {}), Close("group")>>)
          \o <<New("dataset", "file", {"sid"}), Close("dataset"), Close("sid"),
               Make("tid", {}), Use({"tid"}), Commit("tid", "file", {}), Close("tid"),
               Use({"file"}), Close("file")>>))

test_iter_attr(fapl) ==
    Test(
      Needs({"ITERATE", "FILE_BASIC", "DATASET_BASIC", "ATTR_BASIC"},
          <<Create("file", "titerate.h5", {fapl}), Make("filespace", {}),
            New("dataset", "file", {"filespace"})>>
          \o Twice(<<New("attribute", "dataset", {"filespace"}), Close("attribute")>>)
          \o <<Close("dataset"), Close("filespace"), Close("file"),
               OpenFile("file", "titerate.h5", {fapl}), Open("dataset", "file", {}),
               Use({"dataset"}), Close("file"), Close("dataset")>>))

test_grp_memb_funcs(fapl) ==
    Test(
      <<Create("file", "titerate.h5", {fapl}), Make("datatype", {}), Make("filespace", {})>>
      \o Twice(<<New("dataset", "file", {"datatype", "filespace"}), Close("dataset")>>)
      \o <<Unchecked(New("grp", "file", {})), Commit("datatype", "file", {}),
           Close("datatype"), Close("grp"), Close("filespace"), Close("file"),
           OpenFile("file", "titerate.h5", {fapl}), Open("root_group", "file", {}),
           Use({"root_group"}), Close("root_group"), Close("file")>>)

test_links(fapl) ==
    Test(
      <<Create("file", "titerate.h5", {fapl}), New("gid", "file", {}),
        New("gid1", "file", {}), Use({"gid"}), Close("gid"), Close("gid1"),
        Close("file")>>)

test_iterate ==
    LET Round(fapl) ==
            test_iter_group(fapl) \o test_iter_group_large(fapl) \o test_iter_attr(fapl)
            \o test_grp_memb_funcs(fapl) \o test_links(fapl)
    IN  Test(<<Make("fapl", {}), Make("fapl2", {"fapl"}), Use({"fapl2"})>>
             \o Round("fapl") \o Round("fapl2") \o <<Close("fapl"), Close("fapl2")>>)

cleanup_iterate ==
    Test(<<Unchecked(Delete("titerate.h5"))>>)

=============================================================================
