--------------------------- MODULE MCIndexClient ---------------------------
(* Discovery documents for the run of IndexClient: none, one that moves the *)
(* index, and one with an unusable field.                                   *)
EXTENDS IndexClient

MCConfigs ==
    {[present |-> FALSE, index_root |-> "unset", api_root |-> "unset"],
     [present |-> TRUE, index_root |-> "valid", api_root |-> "unset"],
     [present |-> TRUE, index_root |-> "unset", api_root |-> "bad"]}
=============================================================================
