--------------------------- MODULE MCTypedStores ---------------------------
(* Radix 3 instead of 256: the lengths of namespaces go up to 8 and take    *)
(* two digits, as those up to 65535 do in the code.                         *)
EXTENDS TypedStores

View(kind, namespaces, type) == [kind |-> kind, namespaces |-> namespaces, type |-> type]

(* A bucket, one nested in it with the name 2, raw access to the space of  *)
(* the first, a bucket whose name begins with the first one's, a           *)
(* sequence, a singleton under the same name, and a view of the whole      *)
(* storage.  In the first bucket, the second key of MCKeys is the nested   *)
(* one's upper bound but for a zero at its end, and the third key reaches  *)
(* into the nested one; without its length, or with its length modulo 3,   *)
(* the name of the last bucket would be the first one's with the third     *)
(* key.                                                                    *)
Named ==
  {View("bucket", <<<<2>>>>, "A"), View("bucket", <<<<2>>, <<2>>>>, "B"),
   View("prefixed", <<<<2>>>>, "bytes"), View("bucket", <<<<2, 0, 1, 2>>>>, "A"),
   View("singleton", <<<<>>>>, "A"), View("sequence", <<<<>>>>, "u64"),
   View("typed", <<>>, "B")}

(* Key paths of scripts: the parts 1 and 1, the part 1 alone and with an   *)
(* empty one before it, a key with the dots of the first, a key that is    *)
(* the raw key of the bucket under its first, and two that are refused.    *)
MCViews ==
  Named \cup
  {View("script", path, "bytes") :
     path \in {<<<<1>>, <<1>>>>, <<<<1>>>>, <<<<>>, <<1>>>>, <<<<1, 2, 1>>>>, <<<<0, 1, 2>>>>,
               <<>>, <<<<1>>, NotString>>}}

MCKeys == {<<>>, <<0, 2>>, <<0, 1, 2>>}

MCRawValues == {[type |-> "bytes", content |-> 0], [type |-> "A", content |-> 1]}
=============================================================================
