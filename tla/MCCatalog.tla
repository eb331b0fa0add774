------------------------------ MODULE MCCatalog ------------------------------
(***************************************************************************)
(* Small surfaces and configurations for Catalog: an index whose collections *)
(* link on, back and away; a description that names part of a surface and    *)
(* a host outside it; a base that answers nothing, so that names are        *)
(* guessed; and tables whose names meet discovered ones and children.        *)
(***************************************************************************)
EXTENDS Catalog

CONSTANTS c1, c2

MCHosts == <<"api", "www">>
MCWords == <<"1", "2", "a", "api-docs", "b", "blog", "openapi", "posts", "users", "v1", "v2", "{id}">>

Api(path) == [host |-> "api", path |-> path, slash |-> FALSE]
Slashed(path) == [host |-> "api", path |-> path, slash |-> TRUE]
Other(path) == [host |-> "www", path |-> path, slash |-> FALSE]
To(url) == [to |-> url, navigation |-> FALSE]
Within1(url) == [to |-> url, navigation |-> TRUE]
Doc(kind, links, arrays, paged) ==
    [kind |-> kind, links |-> links, others |-> IF kind = "map" THEN 0 ELSE 3,
     paged |-> paged, arrays |-> arrays]

Indexed == [base |-> Api(<<"v1">>), maxRequests |-> 12,
    serves |-> (Api(<<"v1">>) :>
                  Doc("map", <<To(Slashed(<<"v1", "users">>)), To(Api(<<"v1", "posts">>)),
                               To(Other(<<"blog">>))>>, <<>>, FALSE))
            @@ (Api(<<"v1", "users">>) :>
                  Doc("rows", <<To(Api(<<"v1", "a">>)), Within1(Api(<<"v1", "b">>)),
                                To(Api(<<"v1", "posts">>))>>, <<"a">>, TRUE))
            @@ (Api(<<"v1", "posts">>) :>
                  Doc("rows", <<To(Api(<<"v1", "users">>)), To(Slashed(<<"v1", "b">>)),
                                To(Api(<<"v1", "users", "{id}">>))>>, <<"b">>, FALSE))
            @@ (Api(<<"v1", "a">>) :> Doc("rejection", <<To(Api(<<"v1", "1">>))>>, <<>>, FALSE))
            @@ (Api(<<"v1", "b">>) :> Doc("map", <<To(Api(<<"v1", "a", "b">>))>>, <<>>, FALSE))
            @@ (Api(<<"v1", "a", "b">>) :> Doc("text", <<>>, <<>>, FALSE))
            @@ (Api(<<"v1", "1">>) :> Doc("rows", <<>>, <<>>, FALSE))]
Mixed == [base |-> Api(<<"v1">>), maxRequests |-> 12,
    serves |-> (Api(<<"v1">>) :>
                  [Doc("rows", <<To(Api(<<"v1", "a">>)), Within1(Api(<<"v1", "b">>))>>, <<>>, FALSE)
                     EXCEPT !.others = 1])
            @@ (Api(<<"v1", "a">>) :> Doc("rows", <<>>, <<>>, FALSE))]
Described == [base |-> Api(<<"v1">>), maxRequests |-> 12,
    serves |-> (Api(<<"v1", "openapi">>) :>
                  Doc("description", <<To(Other(<<"users">>)), To(Other(<<"users", "{id}">>))>>,
                      <<>>, FALSE))
            @@ (Other(<<"users">>) :> Doc("rows", <<>>, <<>>, FALSE))
            @@ (Api(<<"v1">>) :> Doc("rows", <<To(Api(<<"v1", "openapi">>)), To(Api(<<"v1", "users">>))>>,
                      <<"a">>, FALSE))
            @@ (Api(<<"v1", "users">>) :> Doc("rows", <<>>, <<>>, FALSE))]
Whole == [base |-> Api(<<"v1">>), maxRequests |-> 12,
    serves |-> (Api(<<"openapi">>) :>
                  Doc("description", <<To(Api(<<"v1", "users">>)), To(Api(<<"v2", "posts">>))>>,
                      <<>>, FALSE))
            @@ (Api(<<"v1", "users">>) :> Doc("rows", <<To(Api(<<"v1", "a">>))>>, <<>>, FALSE))
            @@ (Api(<<"v1", "a">>) :> Doc("rows", <<>>, <<>>, FALSE))]
Silent == [base |-> Api(<<>>), maxRequests |-> 12, serves |-> Api(<<"users">>) :> Doc("rows", <<>>, <<"a">>, FALSE)]

Short == [Indexed EXCEPT !.maxRequests = 7]

File(name) == [name |-> name, kind |-> "file", arrays |-> <<>>]
Http(name, arrays) == [name |-> name, kind |-> "http", arrays |-> arrays]
At1(there) == [at |-> there, prefix |-> <<>>]
Prefixed(there) == [at |-> there, prefix |-> <<"a">>]

MCConfigurations == {
    [discover |-> <<At1(Indexed)>>, tables |-> <<<<File(<<"posts">>)>>>>],
    [discover |-> <<At1(Short)>>, tables |-> <<>>],
    [discover |-> <<At1(Described)>>, tables |-> <<<<Http(<<"users">>, <<"a">>), File(<<"b">>)>>>>],
    [discover |-> <<At1(Whole), Prefixed(Silent)>>, tables |-> <<>>],
    [discover |-> <<At1(Silent), At1(Mixed), At1(Silent)>>, tables |-> <<>>],
    [discover |-> <<At1(Silent)>>, tables |-> <<<<File(<<"users">>)>>, <<File(<<"users">>)>>>>],
    [discover |-> <<>>, tables |-> <<<<Http(<<"a">>, <<"a", "b">>)>>,
                                     <<File(<<"a", "b">>), Http(<<"b">>, <<"a">>)>>>>]}
=============================================================================
