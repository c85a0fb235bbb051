----------------------------- MODULE Candidates -----------------------------
(***************************************************************************)
(* What the deployment scripts scripts/manage-NNNN.py differ in.           *)
(*                                                                         *)
(* All of them are one transaction (ModuleDeploy) with different tables: a *)
(* record says which modules a script installs (the first digits of the    *)
(* SHA-256 the script pins), which modprobe.d conf it writes and what that *)
(* sets, what it supersedes and clears away, and which form its preflight, *)
(* verify_image, restore and main take. A conf is named by its script.     *)
(***************************************************************************)
EXTENDS FiniteSets

NoConf == "none"

\* Module files, by the pinned digests of their builds.
Two(drm, tba) == [appledrm |-> drm, thunderbolt_apple |-> tba]

Three(mux, drm, tba) ==
  [mux |-> mux, appledrm |-> drm, thunderbolt_apple |-> tba]

Four(atc, mux, drm, tba) ==
  [atc |-> atc, mux |-> mux, appledrm |-> drm, thunderbolt_apple |-> tba]

Five(atc, mux, drm, tba, tb) ==
  [atc |-> atc, mux |-> mux, appledrm |-> drm, thunderbolt_apple |-> tba,
   thunderbolt |-> tb]

\* The parameters the scripts' OPTIONS set.
Native == {"usb4_protocol_probe", "usb4_native_dpin", "dpin_native"}
Clocked == Native \cup {"usb4_tunnel_clock"}
Deferred == Clocked \cup {"usb4_defer_bringup"}
Counted == Deferred \cup {"dp_video_counter"}
Granted == Counted \cup {"dp_bw_grant"}
Software == Granted \ {"usb4_defer_bringup"}
Scored == Software \cup {"usb4_route_prefer_fixed_diag"}
Slim == Scored \ {"usb4_protocol_probe", "usb4_native_dpin"}

\* The two batches of confs that later scripts find left behind.
OldStale == {"0113", "0115", "0116", "0118", "0119", "0121", "0122", "0123",
             "0124", "0126"}
NewStale == {"0127", "0128", "0129", "0130", "0131", "0132", "0133", "0134"}

\* A script that only swaps modules. Its fields: its own conf and what that
\* sets; the conf it supersedes; the confs it clears; those whose presence its
\* preflight refuses and the one it requires; the parameters verify_image bans
\* from the image, and those it bans from a disarmed image too; whether restore
\* rebuilds the image, and leaves a present prior conf alone; whether it disarms.
Swap(id, mods) ==
  [id |-> id, mods |-> mods, own |-> NoConf, flags |-> {}, prior |-> NoConf,
   clears |-> {}, absent |-> {}, needs |-> NoConf, bans |-> {}, always |-> {},
   rebuilds |-> TRUE, keeps |-> FALSE, disarms |-> FALSE]

\* A script of the first generation: it adds a conf and supersedes nothing.
Experiment(id, flags, mods) ==
  [Swap(id, mods) EXCEPT !.own = id, !.flags = flags, !.rebuilds = FALSE,
                         !.disarms = TRUE]

\* A script of the second generation: its conf replaces its predecessor's, and
\* the first cleanup must have been done.
Successor(id, prior, flags, mods) ==
  [Swap(id, mods) EXCEPT !.own = id, !.flags = flags, !.prior = prior,
                         !.absent = OldStale, !.bans = {"usb4_defer_bringup"},
                         !.always = {"usb4_defer_bringup"}, !.disarms = TRUE]
-----------------------------------------------------------------------------
S0093 == Experiment("0093", Native, Two("2e5cb7", "993526"))
S0094 == Experiment("0094", Native, Two("a6ec3a", "267035"))
S0095 == Experiment("0095", Native, Two("eb6122", "267035"))
S0096 == Experiment("0096", Native, Three("4bb009", "eb6122", "267035"))
S0097 == Experiment("0097", Native, Three("4bb009", "b536c8", "267035"))
S0098 == Experiment("0098", Native, Three("46dff7", "0af54d", "267035"))
S0099 == Experiment("0099", Native, Three("228a66", "65ae9b", "267035"))
S0100 == Experiment("0100", Clocked, Four("bca485", "228a66", "01367a", "267035"))
S0101 == Experiment("0101", Clocked, Four("794b47", "228a66", "01367a", "267035"))
S0102 == Experiment("0102", Clocked, Four("e47f03", "228a66", "01367a", "267035"))
S0103 == Experiment("0103", Clocked, Four("e47f03", "5ae538", "9defc2", "267035"))
S0104 == Experiment("0104", Clocked, Four("e47f03", "5ae538", "989403", "267035"))
S0105 == Experiment("0105", Deferred, Four("e47f03", "38e075", "989403", "267035"))
S0106 == Experiment("0106", Counted, Five("e47f03", "38e075", "989403", "267035", "a70deb"))
S0107 == Experiment("0107", Counted, Five("e47f03", "38e075", "989403", "267035", "ebbd7a"))
S0108 == Experiment("0108", Granted, Five("e47f03", "38e075", "989403", "267035", "dd99ee"))
S0109 == Experiment("0109", Granted, Five("e47f03", "38e075", "989403", "74d825", "dd99ee"))
S0110 == Experiment("0110", Granted, Five("e47f03", "38e075", "989403", "7e1dd9", "dd99ee"))
S0111 == Experiment("0111", Granted, Five("e47f03", "38e075", "989403", "e552cb", "dd99ee"))
S0112 == Experiment("0112", Granted, Five("e47f03", "38e075", "989403", "f25986", "dd99ee"))
S0113 == Experiment("0113", Granted, Five("e47f03", "38e075", "989403", "cb6369", "dd99ee"))
S0114 == Experiment("0114", Granted, Five("e47f03", "38e075", "c29b0c", "cb6369", "dd99ee"))
S0115 == Experiment("0115", Granted, Five("fb748d", "0abc55", "a9476d", "7d20ca", "dd99ee"))
S0116 == Experiment("0116", Granted, Five("fb748d", "0abc55", "ec1a94", "7d20ca", "dd99ee"))
S0118 == Experiment("0118", Granted, Five("fb748d", "0abc55", "69ef18", "7d20ca", "dd99ee"))
S0119 == Experiment("0119", Granted, Five("fb748d", "0abc55", "8713ea", "7d20ca", "dd99ee"))
S0120 == Experiment("0120", Granted, Five("2feeec", "0abc55", "b401f2", "7d20ca", "dd99ee"))
S0121 == Experiment("0121", Granted, Five("fb748d", "0abc55", "15dd9b", "7d20ca", "dd99ee"))
S0122 == Experiment("0122", Granted, Five("fb748d", "0abc55", "ed41d6", "7d20ca", "dd99ee"))
S0123 == Experiment("0123", Granted, Five("fb748d", "0abc55", "4548cf", "7d20ca", "dd99ee"))
S0124 == Experiment("0124", Granted, Five("fb748d", "0abc55", "74e2d3", "7d20ca", "dd99ee"))
S0126 == Experiment("0126", Granted, Five("fb748d", "0abc55", "a3ea4d", "7d20ca", "dd99ee"))
S0127 == Experiment("0127", Software, Five("31b68d", "813682", "28c219", "16b18f", "dd99ee"))
S0128 == Experiment("0128", Software, Five("31b68d", "813682", "010287", "16b18f", "dd99ee"))
S0129 == Experiment("0129", Software, Five("31b68d", "813682", "131f3d", "16b18f", "dd99ee"))
S0130 == Experiment("0130", Software, Five("31b68d", "813682", "2d0b5f", "16b18f", "dd99ee"))
S0131 == Experiment("0131", Software, Five("31b68d", "813682", "2d0b5f", "4bd921", "fd5f71"))
S0132 == Experiment("0132", Software, Five("31b68d", "813682", "2d0b5f", "91cadd", "459250"))
S0133 == Experiment("0133", Software, Five("31b68d", "813682", "2d0b5f", "c8ea01", "459250"))
S0134 == Experiment("0134", Software, Five("31b68d", "813682", "2d0b5f", "fa245b", "459250"))
S0135 == Experiment("0135", Scored, Five("31b68d", "813682", "62fea1", "cfcd0f", "459250"))

\* The first cleanup: no modules, only the confs up to 0126.
S0136 == [Swap("0136", <<>>) EXCEPT !.clears = OldStale, !.needs = "0135",
                                    !.bans = {"usb4_defer_bringup"}]

S0137 == Successor("0137", "0135", Scored, Five("31b68d", "813682", "a8f4c4", "cfcd0f", "459250"))
S0138 == Successor("0138", "0137", Scored, Five("31b68d", "813682", "a8f4c4", "cfcd0f", "8f7169"))
S0139 == Successor("0139", "0138", Scored, Five("31b68d", "813682", "b9a071", "cfcd0f", "8f7169"))
S0140 == Successor("0140", "0139", Slim, Five("31b68d", "813682", "b9a071", "cfcd0f", "8f7169"))
S0141 == Successor("0141", "0140", Slim, Five("31b68d", "813682", "5a478e", "cfcd0f", "8f7169"))

\* A slip: the forgotten confs are not cleared.
S0142KeepsStale ==
  [Successor("0142", "0141", Slim, Five("31b68d", "813682", "5a478e", "cfcd0f", "8f7169"))
   EXCEPT !.bans = {"usb4_defer_bringup"}]

\* The second cleanup, of the confs 0127 to 0134, on top of 0141's modules.
S0142 == [Successor("0142", "0141", Slim, Five("31b68d", "813682", "5a478e", "cfcd0f", "8f7169"))
          EXCEPT !.clears = NewStale,
                 !.bans = {"usb4_defer_bringup", "usb4_native_dpin",
                           "usb4_protocol_probe"}]

\* A slip: the last conf stays, and is not looked for.
S0143KeepsConf ==
  [Swap("0143", Five("681399", "0c1e5d", "6f262f", "929c97", "5ed604"))
   EXCEPT !.absent = OldStale \cup NewStale,
          !.bans = {"usb4_native_dpin", "usb4_protocol_probe"}]

\* The last conf goes, without a replacement.
S0143 == [Swap("0143", Five("681399", "0c1e5d", "6f262f", "929c97", "5ed604"))
          EXCEPT !.prior = "0142", !.absent = OldStale \cup NewStale,
                 !.keeps = TRUE,
                 !.bans = {"usb4_native_dpin", "usb4_protocol_probe",
                           "usb4_route_prefer_fixed_diag", "dpin_native",
                           "usb4_defer_bringup", "usb4_tunnel_clock",
                           "dp_bw_grant"}]

S0144 == Swap("0144", Five("d50282", "b9c5a4", "8d56c8", "47138a", "897884"))
S0145 == Swap("0145", [atc |-> "5525c3"])
S0146 == Swap("0146", [thunderbolt_apple |-> "d0ec1d"])
S0147 == Swap("0147", [tps6598x_core |-> "c0a9cf", tps6598x |-> "58bb32",
                       sn201202x |-> "4dd29a"])
-----------------------------------------------------------------------------
\* The scripts in the order they were written and run.
Chain == <<
  S0093, S0094, S0095, S0096, S0097, S0098, S0099, S0100,
  S0101, S0102, S0103, S0104, S0105, S0106, S0107, S0108,
  S0109, S0110, S0111, S0112, S0113, S0114, S0115, S0116,
  S0118, S0119, S0120, S0121, S0122, S0123, S0124, S0126,
  S0127, S0128, S0129, S0130, S0131, S0132, S0133, S0134,
  S0135, S0136, S0137, S0138, S0139, S0140, S0141, S0142,
  S0143, S0144, S0145, S0146, S0147 >>
\* What they track between them: module files, confs, and what each conf sets.
ChainModule == UNION {DOMAIN Chain[i].mods : i \in DOMAIN Chain}
ChainConf == {Chain[i].own : i \in DOMAIN Chain} \ {NoConf}
ChainFlags == [f \in ChainConf |->
  LET i == CHOOSE j \in DOMAIN Chain : Chain[j].own = f IN Chain[i].flags]

\* The confs that were left armed: those the two cleanups found, and those that
\* were superseded one by one.
ChainLeftArmed == OldStale \cup NewStale \cup
                  {"0135", "0137", "0138", "0139", "0140", "0141", "0142"}

\* Where in the chain the second cleanup is.
SecondCleanup == CHOOSE i \in DOMAIN Chain : Chain[i].id = "0142"
=============================================================================
