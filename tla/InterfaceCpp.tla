---------------------------- MODULE InterfaceCpp ----------------------------
(***************************************************************************)
(* The functions of the C++ interface: each passes its arguments, in       *)
(* order, to the function of the same name of the implementation's class.  *)
(* A parameter is a result that may be omitted where the implementation    *)
(* tests it for NULL.  SetArgumentPointer and the like, which C++          *)
(* overloads, have two names here; the objects' creation and destruction   *)
(* is that of ModelCreation and ComputeArguments.                          *)
(***************************************************************************)
EXTENDS InterfaceRows

(***************************************************************************)
(* Objects                                                                 *)
(***************************************************************************)
\* KIM_Collections.cpp
Collections ==
  Via("Collections", "CollectionsImplementation", {
    Call("GetItemType", <<Text("itemName"), Out("itemType")>>),
    Call("GetItemLibraryFileNameAndCollection", <<In("itemType"), Text("itemName"),
      OptionalText("fileName"), Optional("collection")>>),
    Call("CacheListOfItemMetadataFiles", <<In("itemType"), Text("itemName"), Out("extent")>>),
    Call("GetItemMetadataFile", <<Index("index"), OptionalText("fileName"), Optional("fileLength"),
      Optional("fileRawData"), Optional("availableAsString"), TextOrNull("fileString")>>),
    Call("CacheListOfItemNamesByType", <<In("itemType"), Out("extent")>>),
    Call("GetItemNameByType", <<Index("index"), OutText("itemName")>>),
    Call("CacheListOfItemNamesByCollectionAndType", <<In("collection"), In("itemType"),
      Out("extent")>>),
    Call("GetItemNameByCollectionAndType", <<Index("index"), OutText("itemName")>>),
    Call("GetItemLibraryFileNameByCollectionAndType", <<In("collection"), In("itemType"),
      Text("itemName"), OutText("fileName")>>),
    Call("CacheListOfItemMetadataFilesByCollectionAndType", <<In("collection"), In("itemType"),
      Text("itemName"), Out("extent")>>),
    Call("GetItemMetadataFileByCollectionAndType", <<Index("index"), OptionalText("fileName"),
      Optional("fileLength"), Optional("fileRawData"), Optional("availableAsString"),
      TextIfAny("fileString")>>),
    Do("GetProjectNameAndSemVer", <<OptionalText("projectName"), OptionalText("semVer")>>),
    Call("GetEnvironmentVariableName", <<In("itemType"), OutText("name")>>),
    Do("GetConfigurationFileEnvironmentVariable", <<OptionalText("name"), OptionalText("value")>>),
    Do("GetConfigurationFileName", <<OutText("fileName")>>),
    Call("CacheListOfDirectoryNames", <<In("collection"), In("itemType"), Out("extent")>>),
    Call("GetDirectoryName", <<Index("index"), OutText("directoryName")>>),
    Do("SetLogID", <<Text("logID")>>),
    Do("PushLogVerbosity", <<In("logVerbosity")>>),
    Do("PopLogVerbosity", <<>>)})

\* KIM_ComputeArguments.cpp
ComputeArguments ==
  Via("ComputeArguments", "ComputeArgumentsImplementation", {
    Call("GetArgumentSupportStatus", <<In("computeArgumentName"), Out("supportStatus")>>),
    Call("GetCallbackSupportStatus", <<In("computeCallbackName"), Out("supportStatus")>>),
    Call("SetArgumentPointerInteger", <<In("computeArgumentName"), In("ptr")>>),
    Call("SetArgumentPointerDouble", <<In("computeArgumentName"), In("ptr")>>),
    Call("SetCallbackPointer", <<In("computeCallbackName"), In("languageName"), In("fptr"),
      In("dataObject")>>),
    Do("AreAllRequiredArgumentsAndCallbacksPresent", <<Out("result")>>),
    Do("SetSimulatorBufferPointer", <<In("ptr")>>),
    Do("GetSimulatorBufferPointer", <<Out("ptr")>>),
    Say("ToString", <<>>),
    Do("SetLogID", <<Text("logID")>>),
    Do("PushLogVerbosity", <<In("logVerbosity")>>),
    Do("PopLogVerbosity", <<>>)})

\* KIM_Log.cpp
Log ==
  Via("Log", "LogImplementation", {
    Do("PushDefaultVerbosity", <<In("logVerbosity")>>),
    Do("PopDefaultVerbosity", <<>>),
    Do("PushDefaultPrintFunction", <<In("languageName"), In("fptr")>>),
    Do("PopDefaultPrintFunction", <<>>),
    Say("GetID", <<>>),
    Do("SetID", <<Text("id")>>),
    Do("PushVerbosity", <<In("logVerbosity")>>),
    Do("PopVerbosity", <<>>),
    Do("LogEntry", Entry)})

\* KIM_Model.cpp
ModelProperties ==
  Via("Model", "ModelImplementation", {
    Call("Create", <<In("numbering"), In("requestedLengthUnit"), In("requestedEnergyUnit"),
      In("requestedChargeUnit"), In("requestedTemperatureUnit"), In("requestedTimeUnit"),
      Text("modelName"), Out("requestedUnitsAccepted")>>),
    Call("IsRoutinePresent", <<In("modelRoutineName"), Optional("present"), Optional("required")>>),
    Do("GetInfluenceDistance", <<Out("influenceDistance")>>),
    Do("GetNeighborListPointers", <<Optional("numberOfNeighborLists"), Optional("cutoffs"),
      Optional("modelWillNotRequestNeighborsOfNoncontributingParticles")>>),
    Do("GetUnits", <<Optional("lengthUnit"), Optional("energyUnit"), Optional("chargeUnit"),
      Optional("temperatureUnit"), Optional("timeUnit")>>)})

ModelOperations ==
  Via("Model", "ModelImplementation", {
    Call("Compute", <<In("computeArguments")>>),
    Call("Extension", <<Text("extensionID"), In("extensionStructure")>>),
    Call("ClearThenRefresh", <<>>),
    Call("WriteParameterizedModel", <<Text("path"), Text("modelName")>>),
    Call("GetSpeciesSupportAndCode", <<In("speciesName"), Out("speciesIsSupported"),
      Optional("code")>>),
    Do("GetNumberOfParameters", <<Out("numberOfParameters")>>),
    Call("GetParameterMetadata", <<Index("parameterIndex"), Optional("dataType"), Optional("extent"),
      OptionalText("name"), OptionalText("description")>>),
    Call("GetParameterInteger", <<Index("parameterIndex"), Index("arrayIndex"),
      Out("parameterValue")>>),
    Call("GetParameterDouble", <<Index("parameterIndex"), Index("arrayIndex"), Out("parameterValue")>>),
    Call("SetParameterInteger", <<Index("parameterIndex"), Index("arrayIndex"), In("parameterValue")>>),
    Call("SetParameterDouble", <<Index("parameterIndex"), Index("arrayIndex"), In("parameterValue")>>),
    Do("SetSimulatorBufferPointer", <<In("ptr")>>),
    Do("GetSimulatorBufferPointer", <<Out("ptr")>>),
    Say("ToString", <<>>),
    Do("SetLogID", <<Text("logID")>>),
    Do("PushLogVerbosity", <<In("logVerbosity")>>),
    Do("PopLogVerbosity", <<>>)})

\* KIM_ModelCompute.cpp
ModelCompute ==
  Via("ModelCompute", "ModelImplementation", {
    Do("GetModelBufferPointer", <<Out("ptr")>>),
    Do("LogEntry", Entry),
    Say("ToString", <<>>)})

\* KIM_ModelComputeArguments.cpp
ModelComputeArguments ==
  Via("ModelComputeArguments", "ComputeArgumentsImplementation", {
    Call("GetNeighborList", <<Index("neighborListIndex"), In("particleNumber"),
      Out("numberOfNeighbors"), Out("neighborsOfParticle")>>),
    Call("ProcessDEDrTerm", <<In("de"), In("r"), In("dx"), In("i"), In("j")>>),
    Call("ProcessD2EDr2Term", <<In("de"), In("r"), In("dx"), In("i"), In("j")>>),
    Call("GetArgumentPointerInteger", <<In("computeArgumentName"), Out("ptr")>>),
    Call("GetArgumentPointerDouble", <<In("computeArgumentName"), Out("ptr")>>),
    Call("IsCallbackPresent", <<In("computeCallbackName"), Out("present")>>),
    Do("SetModelBufferPointer", <<In("ptr")>>),
    Do("GetModelBufferPointer", <<Out("ptr")>>),
    Do("LogEntry", Entry),
    Say("ToString", <<>>)})

\* KIM_ModelComputeArgumentsCreate.cpp
ModelComputeArgumentsCreate ==
  Via("ModelComputeArgumentsCreate", "ComputeArgumentsImplementation", {
    Call("SetArgumentSupportStatus", <<In("computeArgumentName"), In("supportStatus")>>),
    Call("SetCallbackSupportStatus", <<In("computeCallbackName"), In("supportStatus")>>),
    Do("SetModelBufferPointer", <<In("ptr")>>),
    Do("LogEntry", Entry),
    Say("ToString", <<>>)})

\* KIM_ModelComputeArgumentsDestroy.cpp
ModelComputeArgumentsDestroy ==
  Via("ModelComputeArgumentsDestroy", "ComputeArgumentsImplementation", {
    Do("GetModelBufferPointer", <<Out("ptr")>>),
    Do("LogEntry", Entry),
    Say("ToString", <<>>)})

\* KIM_ModelCreate.cpp
ModelCreate ==
  Via("ModelCreate", "ModelImplementation", {
    Call("SetModelNumbering", <<In("numbering")>>),
    Do("SetInfluenceDistancePointer", <<In("influenceDistance")>>),
    Do("SetNeighborListPointers", <<In("numberOfNeighborLists"), In("cutoffs"),
      In("modelWillNotRequestNeighborsOfNoncontributingParticles")>>),
    Call("SetRoutinePointer", <<In("modelRoutineName"), In("languageName"), In("required"),
      In("fptr")>>),
    Call("SetSpeciesCode", <<In("speciesName"), In("code")>>),
    Call("SetParameterPointerInteger", <<In("extent"), In("ptr"), Text("name"), Text("description")>>),
    Call("SetParameterPointerDouble", <<In("extent"), In("ptr"), Text("name"), Text("description")>>),
    Do("SetModelBufferPointer", <<In("ptr")>>),
    Call("SetUnits", UnitsIn),
    Call("ConvertUnit", UnitConversion),
    Do("LogEntry", Entry),
    Say("ToString", <<>>)})

\* KIM_ModelDestroy.cpp
ModelDestroy ==
  Via("ModelDestroy", "ModelImplementation", {
    Do("GetModelBufferPointer", <<Out("ptr")>>),
    Do("LogEntry", Entry),
    Say("ToString", <<>>)})

\* KIM_ModelDriverCreate.cpp
ModelDriverCreateFiles ==
  Via("ModelDriverCreate", "ModelImplementation", {
    Do("GetParameterFileDirectoryName", <<OutText("directoryName")>>),
    Do("GetNumberOfParameterFiles", <<Out("numberOfParameterFiles")>>),
    Call("GetParameterFileName", <<Index("index"), OutText("parameterFileName")>>),
    Call("GetParameterFileBasename", <<Index("index"), OutText("parameterFileBasename")>>),
    Call("SetModelNumbering", <<In("numbering")>>),
    Do("SetInfluenceDistancePointer", <<In("influenceDistance")>>),
    Do("SetNeighborListPointers", <<In("numberOfNeighborLists"), In("cutoffs"),
      In("modelWillNotRequestNeighborsOfNoncontributingParticles")>>),
    Call("SetRoutinePointer", <<In("modelRoutineName"), In("languageName"), In("required"),
      In("fptr")>>),
    Call("SetSpeciesCode", <<In("speciesName"), In("code")>>),
    Call("SetParameterPointerInteger", <<In("extent"), In("ptr"), Text("name"), Text("description")>>)})

ModelDriverCreateParameters ==
  Via("ModelDriverCreate", "ModelImplementation", {
    Call("SetParameterPointerDouble", <<In("extent"), In("ptr"), Text("name"), Text("description")>>),
    Do("SetModelBufferPointer", <<In("ptr")>>),
    Call("SetUnits", UnitsIn),
    Call("ConvertUnit", UnitConversion),
    Do("LogEntry", Entry),
    Say("ToString", <<>>)})

\* KIM_ModelExtension.cpp
ModelExtensionID ==
  Via("ModelExtension", "ModelImplementation", {
    Do("GetExtensionID", <<OutText("extensionID")>>)})

ModelExtension ==
  Via("ModelExtension", "ModelImplementation", {
    Do("GetModelBufferPointer", <<Out("ptr")>>),
    Do("LogEntry", Entry),
    Say("ToString", <<>>)})

\* KIM_ModelRefresh.cpp
ModelRefresh ==
  Via("ModelRefresh", "ModelImplementation", {
    Do("SetInfluenceDistancePointer", <<In("influenceDistance")>>),
    Do("SetNeighborListPointers", <<In("numberOfNeighborLists"), In("cutoffs"),
      In("modelWillNotRequestNeighborsOfNoncontributingParticles")>>),
    Do("GetModelBufferPointer", <<Out("ptr")>>),
    Do("LogEntry", Entry),
    Say("ToString", <<>>)})

\* KIM_ModelWriteParameterizedModel.cpp
ModelWriteParameterizedModel ==
  Via("ModelWriteParameterizedModel", "ModelImplementation", {
    Do("GetPath", <<OutText("path")>>),
    Do("GetModelName", <<OutText("modelName")>>),
    Do("SetParameterFileName", <<Text("fileName")>>),
    Do("GetModelBufferPointer", <<Out("ptr")>>),
    Do("LogEntry", Entry),
    Say("ToString", <<>>)})

\* KIM_SimulatorModel.cpp
SimulatorModel ==
  Via("SimulatorModel", "SimulatorModelImplementation", {
    Do("GetSimulatorNameAndVersion", <<OptionalText("simulatorName"),
      OptionalText("simulatorVersion")>>),
    Do("GetNumberOfSupportedSpecies", <<Out("numberOfSupportedSpecies")>>),
    Call("GetSupportedSpecies", <<Index("index"), OutText("speciesName")>>),
    Do("OpenAndInitializeTemplateMap", <<>>),
    Ask("TemplateMapIsOpen", <<>>),
    Call("AddTemplateMap", <<Text("key"), Text("value")>>),
    Do("CloseTemplateMap", <<>>),
    Do("GetNumberOfSimulatorFields", <<Out("numberOfSimulatorFields")>>),
    Call("GetSimulatorFieldMetadata", <<Index("fieldIndex"), Optional("extent"),
      OptionalText("fieldName")>>),
    Call("GetSimulatorFieldLine", <<Index("fieldIndex"), Index("lineIndex"), OutText("lineValue")>>),
    Do("GetParameterFileDirectoryName", <<OutText("directoryName")>>),
    Do("GetSpecificationFileName", <<OutText("specificationFileName")>>),
    Do("GetNumberOfParameterFiles", <<Out("numberOfParameterFiles")>>),
    Call("GetParameterFileName", <<Index("index"), OutText("parameterFileName")>>),
    Call("GetParameterFileBasename", <<Index("index"), OutText("parameterFileBasename")>>),
    Do("SetSimulatorBufferPointer", <<In("ptr")>>),
    Do("GetSimulatorBufferPointer", <<Out("ptr")>>),
    Say("ToString", <<>>),
    Do("SetLogID", <<Text("logID")>>),
    Do("PushLogVerbosity", <<In("logVerbosity")>>),
    Do("PopLogVerbosity", <<>>)})

\* KIM_SemVer.cpp
SemVer ==
  Of("SemVer", {
    Say("GetSemVer", <<>>),
    Call("IsLessThan", <<Text("lhs"), Text("rhs"), Out("isLessThan")>>)})

(***************************************************************************)
(* Enumerations                                                            *)
(***************************************************************************)
ChargeUnit == Enumeration("ChargeUnit")
CollectionItemType == Enumeration("CollectionItemType")
Collection == Enumeration("Collection")
ComputeArgumentName ==
  Enumeration("ComputeArgumentName")
  \cup Of("ComputeArgumentName", {Call("GetComputeArgumentDataType", <<In("value"), Out("dataType")>>)})
ComputeCallbackName == Enumeration("ComputeCallbackName")
DataType == Enumeration("DataType")
EnergyUnit == Enumeration("EnergyUnit")
LanguageName == Enumeration("LanguageName")
LengthUnit == Enumeration("LengthUnit")
LogVerbosity == Enumeration("LogVerbosity")
ModelRoutineName == Enumeration("ModelRoutineName")
Numbering == Enumeration("Numbering")
SpeciesName == Enumeration("SpeciesName")
SupportStatus == Enumeration("SupportStatus")
TemperatureUnit == Enumeration("TemperatureUnit")
TimeUnit == Enumeration("TimeUnit")

(***************************************************************************)
(* All of them                                                             *)
(***************************************************************************)
Rows ==
  UNION {Collections, ComputeArguments, Log, ModelProperties, ModelOperations, ModelCompute,
    ModelComputeArguments, ModelComputeArgumentsCreate, ModelComputeArgumentsDestroy,
    ModelCreate, ModelDestroy, ModelDriverCreateFiles, ModelDriverCreateParameters,
    ModelExtensionID, ModelExtension, ModelRefresh, ModelWriteParameterizedModel,
    SimulatorModel, SemVer, ChargeUnit, CollectionItemType, Collection, ComputeArgumentName,
    ComputeCallbackName, DataType, EnergyUnit, LanguageName, LengthUnit, LogVerbosity,
    ModelRoutineName, Numbering, SpeciesName, SupportStatus, TemperatureUnit, TimeUnit}
=============================================================================
