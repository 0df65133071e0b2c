------------------------------- MODULE MCProducer -------------------------------
(* Small instances of Producer.tla: what each client does.                  *)
EXTENDS Producer

Conf(ptr, off, ext, symbolic) ==
  [ptr |-> ptr, off |-> off, ext |-> ext, symbolic |-> symbolic, is64 |-> ptr = 8]

Conf32  == Conf(4, 4, 0, FALSE)
Confs32 == {Conf32, Conf(4, 4, 0, TRUE)}
ConfIrix == Conf(8, 8, 0, FALSE)
Conf64  == Conf(8, 8, 4, TRUE)
Conf84  == Conf(8, 4, 0, TRUE)

At(op, at, v, sym) == [op |-> op, at |-> at, v |-> v, sym |-> sym]

AnAddress  == At("address", "low_pc", 64, "text")
NoAddress  == At("address", "low_pc", 64, NULL)
Numbers    == {At("unsigned", "byte_size", 200, NULL), At("unsigned", "bit_size", 70000, NULL),
               At("signed", "lower_bound", 200, NULL), At("signed", "upper_bound", -200, NULL)}
Constants  == {At("sdata", "const_value", -65, NULL), At("udata", "const_value", 200, NULL)}
Texts      == {At("string", "name", 3, NULL), At("flag", "external", 1, NULL),
               At("block", "data", 130, NULL)}
CompDir    == At("string", "comp_dir", 5, NULL)
References == {At("ref_address", "import", 11, "info"), At("dataref", "ranges", 7, "ranges")}

Does_(conf, uses, attrs, n) == [conf |-> conf, uses |-> uses, attrs |-> attrs, calls |-> n]

MCClients ==
  {Does_(Conf32, {"dies"}, Numbers \cup {AnAddress}, 5)}
  \cup {Does_(Conf64, {"dies"}, Texts \cup Constants, 4)}
  \cup {Does_(c, {"dies", "markers", "references"}, {AnAddress} \cup References, 4) : c \in Confs32}
  \cup {Does_(Conf84, {"dies"}, {AnAddress} \cup References, 4)}
  \cup {Does_(Conf32, {"dies", "references"}, {AnAddress, NoAddress}, 5)}
  \cup {Does_(c, {"dies", "names", "read"}, {AnAddress}, 3) : c \in Confs32}
  \cup {Does_(c, {"dies", "expressions"}, {}, 5) : c \in {ConfIrix, Conf64}}
  \cup {Does_(Conf84, {"dies", "expressions", "reset"}, {}, 5)}
  \cup {Does_(c, {"dies", "names"}, {}, 4) : c \in Confs32 \cup {Conf64}}
  \cup {Does_(c, {"dies", "aranges"}, {}, 4) : c \in {ConfIrix, Conf64, Conf84} \cup Confs32}
  \cup {Does_(c, {"macros"}, {}, 4) : c \in {Conf32}}
  \cup {Does_(c, {"lines", "decls"}, {}, 3) : c \in Confs32 \cup {ConfIrix}}
  \cup {Does_(Conf32, {"dies", "lines", "decls"}, {CompDir}, 4)}
  \cup {Does_(Conf32, {"dies", "frames", "aranges", "plain frames"}, {}, 4)}
  \cup {Does_(c, {"dies", "frames"}, {}, 5) : c \in {Conf32, Conf64, Conf84}}
  \cup {Does_(Conf32, {"dies", "frames", "plain frames"}, {}, 6)}
  \cup {Does_(c, {"dies", "names", "faults"}, {AnAddress}, 3) : c \in Confs32}
  \cup {Does_(c, {"macros", "lines", "faults"}, {}, 2) : c \in Confs32}
  \cup {Does_(Conf32, {"dies", "frames", "faults"}, {}, 4)}
  \cup {Does_(Conf(4, 4, 0, TRUE), {"dies", "expressions", "faults"}, {}, 4)}
===============================================================================
