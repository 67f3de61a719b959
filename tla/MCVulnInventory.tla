-------------------------- MODULE MCVulnInventory --------------------------
(* An inventory that fills the limit, and requests of every kind about
   axios and lodash: ingests, one of which writes its ecosystem in capitals, one that
   names all organizations, with a blank before. *)
EXTENDS VulnInventory, TLC

CONSTANTS sbom1, sbom2, everyone, match, enrich, scan

P(name, version) == [name |-> name, version |-> version]
Ask(kind, service, ecosystem, packages) ==
    [kind |-> kind, org |-> "acme", service |-> service, ecosystem |-> ecosystem, packages |-> packages]

MCReq ==
    sbom1 :> Ask("sbom", "web", "NPM", <<P("axios", Unknown)>>)
    @@ sbom2 :> Ask("sbom", "web", "npm", <<P("", 1), P("axios", 2)>>)
    @@ everyone :> [Ask("sbom", "web", "npm", <<P("axios", 1)>>) EXCEPT !.org = " all"]
    @@ match :> Ask("match", "", "", <<>>)
    @@ enrich :> Ask("enrich", "", "", <<>>)
    @@ scan :> Ask("scan", "web", "npm", <<P("lodash", 1), P("axios", 1)>>)

InStock(org, service, name) ==
    [org |-> org, service |-> service, ecosystem |-> "npm", name |-> name, version |-> 1, at |-> 0]
MCStock == {InStock("acme", "web", "vue"), InStock("acme", "web", "react"), InStock("other", "web", "axios")}

Advisory(id, package, symbols) ==
    [id |-> id, package |-> package, ecosystem |-> "npm", below |-> 2, symbols |-> symbols]
MCCatalog == {Advisory("GHSA-1", "axios", {"axios.get"})}
MCOsv == {Advisory("GHSA-2", "lodash", {"_.merge"})}

Site(org, names) == [org |-> org, service |-> "web", names |-> names]
MCCallSites == {Site("acme", {"axios"}), Site("other", {"lodash", "axios.get"})}
=============================================================================
