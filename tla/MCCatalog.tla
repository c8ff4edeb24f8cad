----------------------------- MODULE MCCatalog -----------------------------
(***************************************************************************)
(* Two clients that list up to three and up to two descriptors, among them *)
(* duplicates, two tools mapped to one public name, an unmapped version, a *)
(* rejected tool and a malformed descriptor.                               *)
(***************************************************************************)
EXTENDS Catalog

CONSTANT Missing    \* a metadata key that is absent, or has the wrong type

MCVerticals == {"mobility", "internet"}
MCClients == <<"mobility", "internet">>
MCTools == {"search", "book"}
MCVersions == {"1.0", "2.0"}
MCSchemas == {"trip", "address"}
MCPublicNames == {"search_mobility_options", "compare_internet_plans"}
MCDescriptions == {"trips", "plans"}
MCPublicVersions == {"1.0"}

MCMapping(n, d) == [public_name |-> n, description |-> d, public_version |-> "1.0"]

\* book 1.0 is mapped to the name search 1.0 has, search 2.0 is not mapped.
MCApproved ==
    [k \in Keys |->
        CASE k = <<"mobility", "search", "1.0">> -> MCMapping("search_mobility_options", "trips")
          [] k = <<"mobility", "book", "1.0">>   -> MCMapping("search_mobility_options", "plans")
          [] k = <<"internet", "search", "1.0">> -> MCMapping("compare_internet_plans", "plans")
          [] k = <<"internet", "book", "2.0">>   -> MCMapping("search_mobility_options", "trips")
          [] OTHER -> None]

MCDefault ==
    [k \in Keys |-> IF k = <<"internet", "book", "2.0">>
                    THEN MCMapping("compare_internet_plans", "trips") ELSE None]

MCConforms(c) == c.safe_to_expose

MCDescriptor(n, v, s, schema) ==
    [name |-> n, version |-> v, safe |-> s, input_schema |-> schema]

MCDescriptors ==
    {MCDescriptor("search", "1.0", TRUE, "trip"),
     MCDescriptor("search", "2.0", TRUE, "trip"),
     MCDescriptor("book", "1.0", TRUE, "address"),
     MCDescriptor("book", "2.0", TRUE, "address"),
     MCDescriptor("search", "1.0", FALSE, "trip"),
     MCDescriptor("book", Missing, TRUE, "trip")}

SeqsUpTo(S, n) == UNION {[1..k -> S] : k \in 0..n}

MCListings ==
    {<<first, second>> : first \in SeqsUpTo(MCDescriptors, 3) \cup {Unreachable},
                         second \in SeqsUpTo(MCDescriptors, 2) \cup {Unreachable}}
=============================================================================
