-------------------------------- MODULE Routes --------------------------------
(***************************************************************************)
(* The HTTP routes of the API and who may call each: the preHandlers that  *)
(* src/presentation/routes gives to Fastify.  A route is named by method,  *)
(* file and path; one definition per file, or per part of a long one.      *)
(* What a handler does to the tables is in the module of its component;    *)
(* the schemas and the pages a route documents are left out.               *)
(***************************************************************************)

\* User.role, and the claim of a call that carries no valid token.
Role == {"SUPER_ADMIN", "ADMIN_INSTANCE", "EDITOR", "VIEWER"}
Visitor == "none"

\* authenticate: a token whose signature and age are right, whatever its role.
Everyone == Role
\* No preHandler, or authenticateOptional: a call without token passes too.
Public == Everyone \cup {Visitor}
\* requireRole and requireInstanceRole look at the role in the token, and let a
\* super administrator pass whatever the list.
RequireRole(roles) == {"SUPER_ADMIN"} \cup (Everyone \cap roles)
SuperAdmin == RequireRole({"SUPER_ADMIN"})
Admins == RequireRole({"SUPER_ADMIN", "ADMIN_INSTANCE"})
Editors == RequireRole({"SUPER_ADMIN", "ADMIN_INSTANCE", "EDITOR"})

On(claims, routes) == [claims : {claims}, route : routes]

AdminCommentRoutes == On(Admins,
  {"GET admin-comment", "POST admin-comment/:id/flag", "POST admin-comment/:id/unflag",
   "POST admin-comment/:id/review", "DELETE admin-comment/:id"})
AdminDockerRoutes == On(SuperAdmin,
  {"GET admin-docker/containers", "GET admin-docker/containers/:id/stats",
   "GET admin-docker/containers/:id/logs"})
AdminFaqRoutes == On(Editors, {"GET admin-faq", "POST admin-faq/:id/review"})
AdminFeedbackRoutes == On(Admins, {"GET admin-feedback", "PATCH admin-feedback/:id"})
AdminJobRoutes ==
  On(SuperAdmin, {"GET admin/dashboard", "GET admin/jobs", "GET admin/jobs/:id",
      "POST admin/jobs/:id/retry", "POST admin/osm/import"})
  \cup On(Admins, {"GET admin/layers/freshness"})
AdminSystemRoutes ==
  On(SuperAdmin, {"POST admin/search/reindex-layers", "POST admin/backup",
      "GET admin/health", "POST admin/cache/clear", "GET admin/config/db",
      "GET admin/database/overview"})
  \cup On(Editors, {"GET admin/icons/catalog"})
  \cup On(Admins, {"POST admin/icons/generate"})
AdminDataRoutes == On(SuperAdmin,
  {"POST admin/instances/template", "GET admin/sequences", "POST admin/sequences",
   "DELETE admin/sequences", "POST admin/database/purge-orphan-tables"})
AdressageRoutes == On(Public,
  {"POST adressage/adresse", "POST adressage/position", "POST adressage/points",
   "POST adressage/search", "POST adressage/click", "GET adressage/code-usage",
   "POST adressage/elastic-data"})
AnalysisReportRoutes == On(Everyone,
  {"POST analysis-report", "GET analysis-report", "GET analysis-report/:id",
   "POST analysis-report/:id/rate", "GET analysis-report/:id/download"})
AnalysisRoutes == On(Public, {"POST analysis/spatial"})
AnalyticsRoutes ==
  On(Public, {"POST analytics/track", "POST analytics/view"})
  \cup On(SuperAdmin, {"GET analytics"})
  \cup On(Admins, {"GET analytics/usage-dashboard"})
AssistantRoutes == On(Everyone,
  {"GET assistant/conversations", "POST assistant/conversations",
   "GET assistant/conversations/:id", "DELETE assistant/conversations/:id",
   "POST assistant/chat"})
AccountRoutes ==
  On(Public, {"POST auth/register", "POST auth/login", "POST auth/refresh",
      "POST auth/logout", "POST auth/verify-email", "POST auth/forgot-password",
      "POST auth/reset-password"})
  \cup On(Everyone, {"GET auth/me", "PATCH auth/me"})
OsmLinkRoutes ==
  On(Everyone, {"PUT auth/me/password", "GET auth/osm/link-url", "GET auth/osm/profile",
      "DELETE auth/osm/link"})
  \cup On(Public, {"GET auth/osm/status", "GET auth/osm/login-url",
      "GET auth/osm/callback"})
BaseMapRoutes ==
  On(Public, {"GET base-map"})
  \cup On(Admins, {"POST base-map", "PATCH base-map/:id", "DELETE base-map/:id"})
CatalogRoutes == On(Public, {"GET catalog", "GET catalog/:instanceSlug"})
CommentRoutes == On(Everyone,
  {"GET comment", "POST comment", "POST comment/:id/reply", "PATCH comment/:id/resolve",
   "DELETE comment/:id"})
DefaultThemeRoutes ==
  On(Public, {"GET default-theme", "GET default-theme/:id", "GET default-theme/:id/tags"})
  \cup On(SuperAdmin, {"POST default-theme", "PATCH default-theme/:id",
      "DELETE default-theme/:id", "POST default-theme/:id/tags", "POST default-theme/seed"})
DocumentRoutes == On(Everyone,
  {"GET document", "GET document/:id", "POST document", "DELETE document/:id"})
DrawingRoutes == On(Everyone,
  {"GET drawing", "GET drawing/:id", "POST drawing", "DELETE drawing/:id"})
ExportRoutes == On(Everyone,
  {"POST export", "POST export/bulk", "GET export", "GET export/:id",
   "GET export/:id/download", "DELETE export/:id"})
FaqRoutes == On(Public, {"GET faq/:instanceSlug"})
FeatureRoutes ==
  On(Public, {"GET feature", "GET feature/:featureId"})
  \cup On(Editors, {"POST feature", "PATCH feature/:featureId",
      "DELETE feature/:featureId"})
FeedbackRoutes == On(Public, {"POST feedback"})
GeocodingRoutes == On(Public,
  {"GET geocoding/search", "GET geocoding/reverse", "GET geocoding/lookup",
   "POST geocoding/export"})
GeoportailViewRoutes ==
  On(Public, {"POST geoportail/altitude", "POST geoportail/elevation-profile",
      "GET geoportail/admin-boundary", "GET geoportail/geolocate",
      "GET geoportail/search-limit"})
  \cup On(Everyone, {"POST geoportail/layers/:layerId/stats",
      "POST geoportail/summarize-view"})
BoundaryRoutes ==
  On(Everyone, {"POST geoportail/save-coord-pdf",
      "GET geoportail/instances/:id/admin-levels"})
  \cup On(Admins, {"GET geoportail/admin-boundaries/search"})
  \cup On(Public, {"GET geoportail/admin-boundaries/:table/:id"})
  \cup On(SuperAdmin, {"POST geoportail/admin-boundaries/import"})
GeosignetRoutes == On(Everyone, {"GET geosignet", "POST geosignet", "DELETE geosignet/:id"})
GroupRoutes ==
  On(Everyone, {"GET group", "GET group/:id"})
  \cup On(Admins, {"POST group", "PATCH group/:id", "DELETE group/:id",
      "PATCH group/reorder"})
HealthRoutes == On(Public,
  {"GET health/health", "GET health/health/detailed", "GET health/health/ready",
   "GET health/health/live", "GET health/metrics"})
InstanceRoutes ==
  On(Public, {"GET instance", "GET instance/slug/:slug"})
  \cup On(Everyone, {"GET instance/:id"})
  \cup On(SuperAdmin, {"POST instance", "DELETE instance/:id"})
  \cup On(Admins, {"PATCH instance/:id", "GET instance/:instanceId/users"})
MemberRoutes == On(Admins,
  {"POST instance/:instanceId/users", "DELETE instance/:instanceId/users/:userId",
   "PATCH instance/:instanceId/users/:userId/role"})
LayerAnalysisRoutes == On(Public,
  {"GET layer-analysis/choropleth", "GET layer-analysis/grid"})
LayerRowRoutes ==
  On(Everyone, {"GET layer", "GET layer/:id", "GET layer/:id/source-file"})
  \cup On(Editors, {"POST layer", "PATCH layer/:id", "DELETE layer/:id"})
LayerImportRoutes ==
  On(Admins, {"POST layer/:id/resync"})
  \cup On(Editors, {"POST layer/import/file", "POST layer/import/file/confirm"})
LayerStyleRoutes == On(Editors,
  {"POST layer/import/osm/confirm", "POST layer/:id/style/apply"})
LiveLayerRoutes == On(Public, {"GET live-layer"})
LocationPlanRoutes == On(Everyone,
  {"POST location-plan", "GET location-plan/:id", "GET location-plan/:id/download"})
LogsRoutes == On(Public, {"POST logs/frontend-error"})
MapCompositionRoutes == On(Everyone,
  {"GET map-composition", "GET map-composition/:id", "POST map-composition",
   "PUT map-composition/:id", "DELETE map-composition/:id"})
NotificationRoutes == On(Everyone,
  {"GET notification", "POST notification/:id/read", "POST notification/read-all"})
OsmRoutes ==
  On(Editors, {"GET osm/tags", "GET osm/tags/:key/values"})
  \cup On(Everyone, {"POST osm/query"})
  \cup On(SuperAdmin, {"POST osm/create-table"})
PersonalImportRoutes == On(Everyone,
  {"GET personal-layers", "POST personal-layers/import/file",
   "POST personal-layers/import/file/confirm"})
PersonalStyleRoutes == On(Everyone,
  {"POST personal-layers/import/qgis-project", "GET personal-layers/:id/features",
   "POST personal-layers/:id/style", "POST personal-layers/:id/style/qml"})
PublicationRoutes ==
  On(Everyone, {"DELETE personal-layers/:id",
      "POST personal-layers/:id/request-publication"})
  \cup On(Editors, {"GET personal-layers/publications/pending",
      "POST personal-layers/:id/review"})
PersonalWmsRoutes == On(Public, {"GET personal-wms"})
QgisProjectRoutes ==
  On(Everyone, {"GET qgis-project", "GET qgis-project/:qgisProjectId/layers"})
  \cup On(Admins, {"POST qgis-project/reload", "POST qgis-project/upload"})
QgisPublishRoutes ==
  On(Editors, {"POST qgis-project/:qgisProjectId/layers/confirm",
      "POST qgis-project/:qgisProjectId/auto-import"})
  \cup On(Admins, {"GET qgis-project/:qgisProjectId/export"})
RasterRoutes ==
  On(Admins, {"POST raster/upload"})
  \cup On(Everyone, {"POST raster/download", "POST raster/info",
      "POST raster/:layerId/analyze", "GET raster/analysis/:resultId"})
RasterValueRoutes == On(Everyone, {"GET raster/:layerId/value"})
RoutingRoutes == On(Public,
  {"GET routing/route", "GET routing/nearest", "GET routing/nearest-feature",
   "GET routing/isochrone"})
SearchRoutes == On(Public,
  {"GET search", "GET search/layers", "GET search/features", "GET search/suggestions",
   "GET search/layer-recommendations"})
SeoRoutes == On(Public, {"GET seo/:instanceSlug"})
SharingRoutes ==
  On(Everyone, {"POST sharing"})
  \cup On(Public, {"GET sharing/:code"})
StyleRoutes ==
  On(Everyone, {"GET style", "GET style/defaults"})
  \cup On(Editors, {"PUT style/sld", "PUT style/mapbox", "POST style/reset"})
SubGroupRoutes ==
  On(Everyone, {"GET sub-group", "GET sub-group/:id"})
  \cup On(Admins, {"POST sub-group", "PATCH sub-group/:id", "DELETE sub-group/:id"})
UploadRoutes ==
  On(Editors, {"POST upload/:layerId/import"})
  \cup On(Everyone, {"GET upload/exports/:exportId/download"})
UserRoutes == On(SuperAdmin,
  {"GET user", "GET user/:id", "POST user", "PATCH user/:id", "DELETE user/:id",
   "PATCH user/:id/role", "PATCH user/:id/activate"})
WmsProxyRoutes == On(Public, {"GET wms", "GET wfs"})

Routes ==
  UNION {AdminCommentRoutes, AdminDockerRoutes, AdminFaqRoutes, AdminFeedbackRoutes,
         AdminJobRoutes, AdminSystemRoutes, AdminDataRoutes, AdressageRoutes,
         AnalysisReportRoutes, AnalysisRoutes, AnalyticsRoutes, AssistantRoutes,
         AccountRoutes, OsmLinkRoutes, BaseMapRoutes, CatalogRoutes, CommentRoutes,
         DefaultThemeRoutes, DocumentRoutes, DrawingRoutes, ExportRoutes, FaqRoutes,
         FeatureRoutes, FeedbackRoutes, GeocodingRoutes, GeoportailViewRoutes,
         BoundaryRoutes, GeosignetRoutes, GroupRoutes, HealthRoutes, InstanceRoutes,
         MemberRoutes, LayerAnalysisRoutes, LayerRowRoutes, LayerImportRoutes,
         LayerStyleRoutes, LiveLayerRoutes, LocationPlanRoutes, LogsRoutes,
         MapCompositionRoutes, NotificationRoutes, OsmRoutes, PersonalImportRoutes,
         PersonalStyleRoutes, PublicationRoutes, PersonalWmsRoutes, QgisProjectRoutes,
         QgisPublishRoutes, RasterRoutes, RasterValueRoutes, RoutingRoutes, SearchRoutes,
         SeoRoutes, SharingRoutes, StyleRoutes, SubGroupRoutes, UploadRoutes, UserRoutes,
         WmsProxyRoutes}
===============================================================================
