------------------------------- MODULE Routes -------------------------------
(***************************************************************************)
(* The routes of the HTTP API by controller and by the guard in front of   *)
(* them: @Public, any signed-in user (JwtAuthGuard is global), or @Roles.  *)
(* A route is named by its controller and its handler.                     *)
(***************************************************************************)
CONSTANTS Customer, Manager, Admin

AllRoles == {Customer, Manager, Admin}
Office == {Manager, Admin}

Route(c, names, needs) == {[of |-> c, name |-> n, needs |-> needs] : n \in names}

(* needs: who may call; Anybody is @Public. *)
Anybody == [public |-> TRUE, roles |-> {}]
SignedIn == [public |-> FALSE, roles |-> {}]
Only(roles) == [public |-> FALSE, roles |-> roles]

AuthOpen ==
  Route("auth", {"register", "login", "refresh", "forgotPassword", "resetPassword",
                 "verifyEmail", "confirmEmailChange"}, Anybody)
AuthOwn ==
  Route("auth", {"logout", "getProfile", "updateProfile", "changePassword", "setPassword",
                 "requestEmailChange", "addAddress", "updateAddress", "removeAddress"}, SignedIn)
OAuthVk     == Route("oauth", {"vkInit", "vkCallback"}, Anybody)
OAuthYandex == Route("oauth", {"yandexInit", "yandexCallback", "oauthExchange"}, Anybody)
OAuthOwn    == Route("oauth", {"list", "unlink", "linkInit"}, SignedIn)
UserRoutes == Route("users", {"getStats", "findAll", "create", "findOne", "update", "remove",
                              "getUserOrders"}, Only({Admin}))
Orders ==
  Route("orders", {"findAll", "findById", "create", "cancel"}, SignedIn)
  \cup Route("orders", {"getStats", "updateStatus", "update"}, Only({Admin}))
  \cup Route("orders", {"getMarkingCodes"}, Only(Office))
Cart ==
  Route("cart", {"getCart", "addItem", "updateItem", "removeItem", "clearCart", "applyPromo",
                 "removePromo"}, Anybody)
  \cup Route("cart", {"mergeCarts"}, SignedIn)
Wishlist == Route("wishlist", {"getWishlist", "moveToCart", "addProduct", "removeProduct",
                               "clearWishlist"}, SignedIn)
Reviews ==
  Route("reviews", {"findByProduct"}, Anybody)
  \cup Route("reviews", {"checkReviewEligibility", "create", "findById", "update", "delete"}, SignedIn)
  \cup Route("reviews", {"findAll", "approve", "addReply"}, Only({Admin}))

Products ==
  Route("products", {"findAll", "getFacets", "search", "findBySlug", "findById",
                     "findColorSiblings", "findRelated"}, Anybody)
  \cup Route("products", {"create", "update", "delete", "bulkDelete", "bulkUpdateStatus"}, Only({Admin}))
  \cup Route("products", {"updateStock"}, Only(Office))
Categories ==
  Route("categories", {"findAll", "findTree", "findBySlug", "findById"}, Anybody)
  \cup Route("categories", {"create", "reorder", "update", "delete"}, Only({Admin}))
Promotions ==
  Route("promotions", {"validate"}, Anybody)
  \cup Route("promotions", {"findAll", "findById", "create", "update", "delete"}, Only({Admin}))
Settings ==
  Route("settings", {"getPublicSettings", "getPublicShippingMethods", "getPublicPaymentMethods"}, Anybody)
  \cup Route("settings", {"getSettings", "updateSettings", "findAllShippingMethods",
         "createShippingMethod", "updateShippingMethod", "deleteShippingMethod",
         "findAllPaymentMethods", "createPaymentMethod", "updatePaymentMethod",
         "deletePaymentMethod"}, Only({Admin}))
Pages ==
  Route("pages", {"findPublic"}, Anybody)
  \cup Route("pages", {"listFiles", "uploadFile", "deleteFile", "findOne", "findAll", "create",
                       "update", "delete"}, Only({Admin}))
Upload    == Route("upload", {"uploadImage", "uploadImages", "uploadFile", "deleteFile"}, Only({Admin}))
Marking   == Route("marking", {"findAll", "getStats", "create", "bulkCreate", "updateStatus",
                               "bulkUpdateStatus", "delete"}, Only(Office))
Import    == Route("import", {"preview", "detectDuplicates", "start", "getJobs", "getJob",
                              "downloadTemplate"}, Only(Office))
Analytics ==
  Route("analytics", {"trackEvent"}, Anybody)
  \cup Route("analytics", {"getDashboard", "getSales", "getVisitors", "getTopProducts",
                           "getTopCategories", "getLowStock", "getCustomerStats"}, Only({Admin}))
Health == Route("health", {"check", "ready"}, Anybody)

All == UNION {AuthOpen, AuthOwn, OAuthVk, OAuthYandex, OAuthOwn, UserRoutes, Orders, Cart, Wishlist,
              Reviews, Products, Categories, Promotions, Settings, Pages, Upload, Marking, Import, Analytics, Health}
=============================================================================
