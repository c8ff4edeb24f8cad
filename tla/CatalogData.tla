----------------------------- MODULE CatalogData -----------------------------
(***************************************************************************)
(* The values the catalog is made of, and the two pure decisions taken on  *)
(* them: which proxy-owned mapping a candidate tool has, and what the      *)
(* public tool and the route made from a candidate are.  The verdict of    *)
(* the conformance validator is the parameter Conforms.                    *)
(***************************************************************************)
EXTENDS Integers, Sequences

CONSTANTS
    Verticals,          \* names of the configured vertical clients
    Tools,              \* upstream tool names
    Versions,           \* internal versions that are strings
    Schemas,            \* input schemas
    PublicNames,        \* public tool names a mapping may give
    Descriptions,       \* public descriptions a mapping may give
    PublicVersions,     \* public versions a mapping may give
    ContractVersion,    \* metadata.internal_contract_version
    DefaultMappings,    \* DEFAULT_APPROVED_PUBLIC_MAPPINGS
    ApprovedMappings,   \* the approved_mappings argument of CatalogBuilder
    None,               \* Python's None, and "not in the dict"
    Conforms(_)         \* the validator accepts this candidate

Keys == Verticals \X Tools \X Versions

Candidates == [vertical : Verticals, upstream_tool : Tools,
               internal_version : Versions, safe_to_expose : BOOLEAN,
               input_schema : Schemas]

PublicMappings == [public_name : PublicNames, description : Descriptions,
                   public_version : PublicVersions]

PublicTools == [name : PublicNames, description : Descriptions,
                input_schema : Schemas]

Routes == [public_name : PublicNames, vertical : Verticals,
           upstream_tool : Tools, public_version : PublicVersions,
           internal_contract_version : {ContractVersion}]

\* A dict of mappings is a function on all keys, None where it has no entry.
MappingDicts == [Keys -> PublicMappings \cup {None}]

ASSUME MappingsAssumption ==
    /\ DefaultMappings \in MappingDicts
    /\ ApprovedMappings \in MappingDicts \cup {None}
ASSUME NoneAssumption ==
    None \notin PublicMappings \cup PublicTools \cup Routes \cup MappingDicts
ASSUME ConformsAssumption == \A c \in Candidates : Conforms(c) \in BOOLEAN

-----------------------------------------------------------------------------
\* approved_mappings or DEFAULT_...: None and the empty dict are both falsy.
Falsy(dict) == dict = None \/ \A k \in Keys : dict[k] = None

Mappings == IF Falsy(ApprovedMappings) THEN DefaultMappings
                                       ELSE ApprovedMappings

MappingKey(c) == <<c.vertical, c.upstream_tool, c.internal_version>>

MappingOf(c) == Mappings[MappingKey(c)]

ToPublicTool(c, mapping) ==
    [name |-> mapping.public_name, description |-> mapping.description,
     input_schema |-> c.input_schema]

ToRoute(c, mapping) ==
    [public_name |-> mapping.public_name, vertical |-> c.vertical,
     upstream_tool |-> c.upstream_tool,
     public_version |-> mapping.public_version,
     internal_contract_version |-> ContractVersion]

-----------------------------------------------------------------------------
\* Candidate i of cs may be published as n: it conforms, and a proxy-owned
\* mapping for exactly its vertical, tool and version gives it that name.
Eligible(cs, i, n) ==
    /\ Conforms(cs[i])
    /\ MappingOf(cs[i]) # None
    /\ MappingOf(cs[i]).public_name = n

\* The candidate that gets the name n: the first eligible one.
First(cs, i, n) ==
    /\ Eligible(cs, i, n)
    /\ \A j \in 1..(i - 1) : ~Eligible(cs, j, n)
=============================================================================
