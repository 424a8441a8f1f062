---------------------------- MODULE MCStatement ----------------------------
(* A small instance of Statement for TLC: presentations and requests that  *)
(* each differ from a plain one in a field or two.  Hours count from the   *)
(* first instant of year 1000, set to 0; certificates begin at 6 and the   *)
(* calendar ends at 40.                                                    *)
EXTENDS Statement, TLC

MCKeys == {"issuer", "device", "koblitz", "wide", "rsa"}
MCCurve == [k \in MCKeys |-> CASE k = "koblitz" -> "secp256k1" [] k = "wide" -> "P-384"
                               [] k = "rsa" -> "RSA" [] OTHER -> "P-256"]
MCCanonical == [t \in {"t1", "t1long", "t2"} |-> IF t = "t2" THEN "t2" ELSE "t1"]
MCCalendar == -5 .. 40
MCTexts == {"ns1", "ns2", "ns3", "age", "name", "absent", "yes", "no", "longid", "mdl",
            "eu.av", "longdoc"}
MCBytes == [x \in MCTexts |->
                CASE x = "longid" -> 33 [] x = "longdoc" -> 256 [] OTHER -> 10]

At(w, z) == [wall |-> w, zone |-> z]
Item(i, v) == [id |-> i, value |-> v]

Plain == [doc_type |-> "eu.av",
          claims |-> "ns1" :> <<Item("age", "yes"), Item("name", "no")>>,
          transcript |-> "t1", valid_from |-> At(10, 0), valid_until |-> At(20, 0),
          device_namespaces |-> None, issuer_key |-> None, device_key |-> None,
          issuer_certificate |-> None]

(* Accepted: as it is; the default doctype, in two namespaces, one of them *)
(* empty; a device map, with a window in another zone; a given key and its *)
(* certificate, from earlier than one could be generated, over an          *)
(* identifier that is too long for C; a bound whose zone has no offset.    *)
(* Not accepted: keys of the wrong curve, another key's certificate, one   *)
(* without an EC key, a naive bound, a window too early or the wrong way   *)
(* round.                                                                  *)
MCPresentations ==
    {Plain,
     [Plain EXCEPT !.doc_type = "mdl",
        !.claims = ("ns1" :> <<Item("age", "yes")>>) @@ ("ns2" :> <<Item("age", "no")>>) @@
                   ("ns3" :> <<>>)],
     [Plain EXCEPT !.device_namespaces = "items", !.valid_from = At(13, 3)],
     [Plain EXCEPT !.valid_from = At(15, Unknown)],
     [Plain EXCEPT !.issuer_key = "koblitz", !.transcript = "t1long"],
     [Plain EXCEPT !.issuer_key = "issuer", !.issuer_certificate = "issuer",
        !.valid_from = At(3, 0), !.claims = "ns1" :> <<Item("longid", "yes")>>],
     [Plain EXCEPT !.device_key = "koblitz"], [Plain EXCEPT !.issuer_key = "wide"],
     [Plain EXCEPT !.issuer_certificate = "device"], [Plain EXCEPT !.issuer_certificate = "rsa"],
     [Plain EXCEPT !.valid_from = At(10, Naive)], [Plain EXCEPT !.valid_from = At(3, 0)],
     [Plain EXCEPT !.valid_until = At(5, 0)]}

(* Another session, other device items, another key, another encoding; and *)
(* items taken back, which restores what google-cpp takes for granted.     *)
Signing(k, t, m) == [key |-> k, transcript |-> t, map |-> m]
MCSignings == {Signing("device", "t2", "empty"), Signing("device", "t1", "items"),
               Signing("device", "t1", "empty"), Signing("issuer", "t1", "empty"),
               Signing("koblitz", "t1long", "empty"), Signing("wide", "t1", "empty")}

Claim(n, i, v) == [namespace |-> n, id |-> i, value |-> v]

Ask == [key |-> "issuer", transcript |-> "t1", claims |-> <<Claim("ns1", "age", "yes")>>,
        time |-> At(12, 0), doctype |-> "eu.av", device_namespaces |-> "empty", count |-> 1]

Two == <<Claim("ns1", "age", "yes"), Claim("ns1", "name", "no")>>

MCRequests ==
    {Ask,
     [Ask EXCEPT !.key = "device"], [Ask EXCEPT !.key = "koblitz"], [Ask EXCEPT !.key = "wide"],
     [Ask EXCEPT !.transcript = "t1long"], [Ask EXCEPT !.transcript = "t2"],
     [Ask EXCEPT !.claims = <<Claim("ns1", "age", "no")>>],
     [Ask EXCEPT !.claims = <<Claim("ns2", "age", "no")>>, !.doctype = "mdl"],
     [Ask EXCEPT !.claims = <<Claim("ns1", "absent", "yes")>>],
     [Ask EXCEPT !.claims = <<Claim("ns1", "longid", "yes")>>],
     [Ask EXCEPT !.claims = Two, !.count = 2],
     [Ask EXCEPT !.claims = Two],
     [Ask EXCEPT !.claims = <<Claim("ns1", "age", "yes"), Claim("ns2", "age", "no")>>,
        !.count = 2, !.doctype = "mdl"],
     [Ask EXCEPT !.time = At(15, 3)], [Ask EXCEPT !.time = At(22, 11)],
     [Ask EXCEPT !.time = At(21, 0)],
     [Ask EXCEPT !.time = At(12, Unknown)], [Ask EXCEPT !.time = At(12, Naive)],
     [Ask EXCEPT !.time = At(40, -2)], [Ask EXCEPT !.time = At(-2, 0)],
     [Ask EXCEPT !.doctype = "mdl"], [Ask EXCEPT !.doctype = "longdoc"],
     [Ask EXCEPT !.device_namespaces = None], [Ask EXCEPT !.device_namespaces = "items"]}
=============================================================================
