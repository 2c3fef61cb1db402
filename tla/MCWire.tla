-------------------------------- MODULE MCWire --------------------------------
(* Wire for TLC: words of 16 bits, numbers of one, two and three groups,   *)
(* a record with its optional fields unset, 0 and set, and every row with  *)
(* a type, one of each kind to write to.                                   *)
EXTENDS Wire

MCUdamRecords == {<<300, 128, 40000, 127, 0, None, 0, 1>>}

MCNumbers == {0, 40000}

MCLabAddresses == {129, 136, 139, 142, 145, 153, 209, 224, 3098, 6158, 6179, 6188, 6225, 6307, 8226, 8581}

MCReadRows == TypedRows \cup {CHOOSE r \in Registry : r.shape = Unknown}

MCConfigId == <<49, 48>>
=============================================================================
