---------------------------- MODULE MCVariantPool ----------------------------
(* VariantPool for TLC: functions in which a sum is used again, used twice,  *)
(* and returned, and one with an addition that is not of integer type.       *)
EXTENDS VariantPool

Square == <<Def("add", 3, 1, 2), Def("mul", 4, 3, 3), Def("ret", 5, 4, 0)>>
Chain  == <<Def("add", 3, 1, 2), Def("add", 4, 3, 3), Def("vadd", 5, 4, 1),
            Def("ret", 6, 5, 0)>>
MCSources == [ir : {Square, Chain}, marked : BOOLEAN]
==============================================================================
