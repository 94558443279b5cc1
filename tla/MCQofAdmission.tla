--------------------------- MODULE MCQofAdmission ----------------------------
(***************************************************************************)
(* The NTN-QoF deployment of MCNtnSession's tables: two slices whose      *)
(* forward and return budgets differ, so a swapped or shifted control is  *)
(* visible.  The QoF is given one of seven configurations: a deployable one *)
(* (slice 1 default), one whose default slice id is out of uint8 range,   *)
(* one with no default slice, one without ntnUri, one without info, one  *)
(* without configuration and a nil config.                                 *)
(***************************************************************************)
EXTENDS QofAdmission

MCSlice ==
  << [SliceID |-> 1, ClassifierRANEndpoint |-> "ranA", ClassifierCNEndpoint |-> "cnA",
      Forward |-> 100, Return |-> 50],
     [SliceID |-> 2, ClassifierRANEndpoint |-> "ranB", ClassifierCNEndpoint |-> "cnB",
      Forward |-> 20, Return |-> 10] >>

QofSliceRec(id, default) == [RAN |-> "ranA", AMF |-> "amf", ID |-> id, Default |-> default]

QofConf(slices, uri) ==
  [info |-> [version |-> "1.0.0"],
   configuration |-> [slice |-> slices, ntnUri |-> uri]]

MCQofConfigs ==
  { QofConf(<< QofSliceRec(1, TRUE), QofSliceRec(2, FALSE) >>, "http://ntn:8000"),
    QofConf(<< QofSliceRec(300, TRUE) >>, "http://ntn:8000"),
    QofConf(<< QofSliceRec(NonNumeric, FALSE) >>, "http://ntn:8000"),
    QofConf(<< QofSliceRec(1, TRUE) >>, ""),
    [info |-> NoInfo, configuration |-> [slice |-> << >>, ntnUri |-> "http://ntn:8000"]],
    [info |-> [version |-> "1.0.0"], configuration |-> NoConfiguration],
    NilConfig }
=============================================================================
