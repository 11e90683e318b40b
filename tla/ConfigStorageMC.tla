-------------------------- MODULE ConfigStorageMC --------------------------
(* Small instances of ConfigStorage.                                       *)
EXTENDS ConfigStorage

(* One field of the last object, as the webhook keeps its host.            *)
LastPointed == {<<Count, CHOOSE f \in Fields : TRUE>>}
=============================================================================
